---- MODULE Spec2Model ----
(***************************************************************************)
(* EEG Paradox Viewer (src/eeg_paradox_viewer_v2_live.py): the overlay     *)
(* engine of ImageZoomViewer.  The model covers the analysis overlays      *)
(* (Note, Ruler, ROI), their (de)serialisation, the mapping between device *)
(* and image coordinates, the pointer-driven drawing session, the overlay  *)
(* store operations and the save/restore of a session through QSettings.   *)
(*                                                                         *)
(* Python values are encoded as follows.  An object reference that may be  *)
(* None (an overlay, a QPoint, an image) is a record, and None itself is   *)
(* the record None.  A str that may be None is a string, None being        *)
(* NoValue.  A dict is a function on its keys.  An image is represented by *)
(* its shape [width, height]; a QPoint by [x, y]; a tuple (x, y) of a      *)
(* persisted record by the sequence <<x, y>>.  An overlay id, a timestamp  *)
(* string with millisecond resolution, is the number of the millisecond.   *)
(***************************************************************************)
EXTENDS Integers, Sequences, FiniteSets, TLC

VARIABLES
  phase,                 \* "running", "closed" (after closeEvent) or "crashed"
  raised,                \* the exception that left the last handler, or "none"
  now,                   \* the wall clock, in milliseconds
  settings,              \* the QSettings store (persists across launches)
  exported,              \* the file last written by export_overlays
  original_image,        \* self.original_image: None or its shape
  zoom,                  \* self.zoom_slider.value()
  analysis_mode_active,  \* self.analysis_mode_active
  tool_combo,            \* self.analysis_tool_combo.currentText()
  current_analysis_tool, \* self.current_analysis_tool
  analysis_overlays,     \* self.analysis_overlays
  drawing_overlay,       \* self.drawing_overlay
  drawing_start_point,   \* self.drawing_start_point
  contrast_mode,         \* self.contrast_mode
  enhanced_mode,         \* self.enhanced_mode_checkbox.isChecked()
  trace_enhancement_active, \* self.trace_enhancement_active
  exported_view,         \* the raster last written by export_current_view
  live_capture_active,   \* self.live_capture_active
  capture_timer,         \* self.capture_timer: None or the running QTimer
  timeout_pending,       \* a timeout of the capture timer awaits dispatch
  handlers,              \* the handlers suspended in a nested event loop
  single_shots,          \* the pending QTimer.singleShot grabs
  live_capture_checkbox, \* self.live_capture_checkbox.isChecked()
  fps_combo,             \* self.fps_combo.currentData()
  panning,               \* self.panning
  pan_start_pos,         \* self.pan_start_pos
  professional_annotations, \* self.professional_annotations
  last                   \* the handler that ran last, with its inputs

\* the state of the image pipeline: filter selection and exported raster
filterVars == <<contrast_mode, enhanced_mode, trace_enhancement_active, exported_view>>

\* the state of screen capture
liveVars == <<live_capture_active, capture_timer, timeout_pending, handlers,
              single_shots>>

\* the widgets of live capture
captureVars == <<live_capture_checkbox, fps_combo>>

\* the state of panning
panVars == <<panning, pan_start_pos>>

\* the legacy annotations
annotationVars == <<professional_annotations>>

vars == <<phase, raised, now, settings, exported, original_image, zoom,
          analysis_mode_active, tool_combo, current_analysis_tool,
          analysis_overlays, drawing_overlay, drawing_start_point,
          filterVars, liveVars, captureVars, panVars, annotationVars, last>>

----------------------------------------------------------------------------
(* Bounds of the model.                                                    *)

\* the store is not grown beyond this many overlays
MaxOverlays == 2

\* the clock does not run beyond this millisecond
MaxClock == 2

\* largest image coordinate of the coordinate-mapping specification
MaxCoord == 25

----------------------------------------------------------------------------
(* Values.                                                                 *)

None == [none |-> TRUE]

NoValue == "None"

QPoint(x, y) == [x |-> x, y |-> y]

Image(w, h) == [width |-> w, height |-> h]

\* bool(QPoint): a QPoint is falsy when it is null, i.e. (0, 0)
Truthy(p) == p # None /\ ~(p.x = 0 /\ p.y = 0)

\* dict.get(key, default)
Get(d, key, default) == IF key \in DOMAIN d THEN d[key] ELSE default

\* dict.update(u): the keys of u override those of d
Update(d, u) == u @@ d

\* d[key] = value
SetItem(d, key, value) == (key :> value) @@ d

\* d.pop(key, None)
Pop(d, key) == [k \in (DOMAIN d) \ {key} |-> d[k]]

EmptyDict == <<>>

ZoomMin == 10

ZoomMax == 400

\* QSlider.setValue clamps to [minimum, maximum]
SliderValue(v) == IF v < ZoomMin THEN ZoomMin ELSE IF v > ZoomMax THEN ZoomMax ELSE v

----------------------------------------------------------------------------
(* Coordinate mapping.  zoom_factor is the double scale_percent / 100.0;   *)
(* int() truncates toward zero.  The two tables list the operands, within  *)
(* the coordinates of the model, for which the IEEE-754 double result lies *)
(* just under the exact integer value and so truncates to one less.        *)

\* <<p, scale>>: int(p * (scale / 100.0)) = (p * scale) \div 100 - 1, p in 0..30
FloatMulShort ==
  { 
      <<25, 116>>, <<25, 228>>, <<25, 232>>
  }

\* <<d, scale>>: int(d / (scale / 100.0)) = (d * 100) \div scale - 1, d in 0..124
FloatDivShort ==
  {
      <<7, 14>>, <<7, 28>>, <<14, 14>>, <<14, 28>>, <<14, 56>>, <<17, 17>>, <<17, 34>>,
      <<17, 68>>, <<21, 14>>, <<21, 28>>, <<28, 14>>, <<28, 28>>, <<28, 56>>, <<28, 112>>,
      <<33, 55>>, <<33, 110>>, <<33, 220>>, <<34, 17>>, <<34, 34>>, <<34, 68>>, <<34, 136>>,
      <<35, 14>>, <<35, 28>>, <<42, 14>>, <<42, 28>>, <<42, 56>>, <<49, 14>>, <<49, 28>>,
      <<55, 55>>, <<55, 110>>, <<55, 220>>, <<56, 14>>, <<56, 28>>, <<56, 56>>, <<56, 112>>,
      <<56, 224>>, <<63, 14>>, <<63, 28>>, <<66, 55>>, <<66, 110>>, <<66, 220>>, <<68, 17>>,
      <<68, 34>>, <<68, 68>>, <<68, 136>>, <<68, 272>>, <<70, 14>>, <<70, 28>>, <<70, 56>>,
      <<81, 135>>, <<81, 270>>, <<84, 14>>, <<84, 28>>, <<84, 56>>, <<84, 112>>, <<85, 17>>,
      <<85, 34>>, <<85, 68>>, <<91, 14>>, <<91, 28>>, <<98, 14>>, <<98, 28>>, <<98, 56>>,
      <<99, 55>>, <<99, 110>>, <<99, 220>>, <<105, 14>>, <<105, 28>>, <<109, 109>>, <<109, 218>>,
      <<110, 55>>, <<110, 110>>, <<110, 220>>, <<111, 111>>, <<111, 222>>, <<112, 14>>, <<112, 28>>,
      <<112, 56>>, <<112, 112>>, <<112, 224>>, <<119, 14>>, <<119, 28>>, <<121, 55>>, <<121, 110>>,
      <<121, 220>>
  }

Abs(n) == IF n < 0 THEN -n ELSE n

Sign(n) == IF n < 0 THEN -1 ELSE 1

\* variant: the product rounded to the nearest integer instead of truncated
ScaleCoordRounded(p, scale_percent) ==
  Sign(p) * ((Abs(p) * scale_percent + 50) \div 100)

\* int(p * zoom_factor), as the draw methods compute a device coordinate
ScaleCoord(p, scale_percent) ==
  Sign(p) * ((Abs(p) * scale_percent) \div 100
             - (IF <<Abs(p), scale_percent>> \in FloatMulShort THEN 1 ELSE 0))

\* int(d / zoom_factor), as get_image_coordinates computes an image coordinate
UnscaleCoord(d, scale_percent) ==
  Sign(d) * ((Abs(d) * 100) \div scale_percent
             - (IF <<Abs(d), scale_percent>> \in FloatDivShort THEN 1 ELSE 0))

\* the device point at which a draw method paints the image point p
scaled_pos(p, scale_percent) ==
  QPoint(ScaleCoord(p.x, scale_percent), ScaleCoord(p.y, scale_percent))

\* ImageZoomViewer.get_image_coordinates; label_pos is the event position
\* relative to the image label
get_image_coordinates(label_pos) ==
  IF original_image = None
  THEN None
  ELSE LET image_x == UnscaleCoord(label_pos.x, zoom)
           image_y == UnscaleCoord(label_pos.y, zoom)
       IN IF /\ 0 <= image_x /\ image_x < original_image.width
             /\ 0 <= image_y /\ image_y < original_image.height
          THEN QPoint(image_x, image_y)
          ELSE None

\* the size of the raster update_zoom and export_current_view ask cv2.resize for
ScaledSize(image, scale_percent) ==
  Image((image.width * scale_percent) \div 100, (image.height * scale_percent) \div 100)

----------------------------------------------------------------------------
(* Overlays.                                                               *)

\* AnalysisOverlay.__init__: the id is the clock's millisecond
NewId(t) == t

\* NoteOverlay.__init__
NoteOverlay(id, position, text, color, data) ==
  [id |-> id, type |-> "Note", data |-> data,
   position |-> position, text |-> text, color |-> color]

\* RulerOverlay.__init__
RulerOverlay(id, start_point, end_point, color, data) ==
  [id |-> id, type |-> "Ruler", data |-> data,
   start_point |-> start_point, end_point |-> end_point, color |-> color]

\* RegionOfInterestOverlay.__init__
RegionOfInterestOverlay(id, top_left, bottom_right, color, data) ==
  [id |-> id, type |-> "ROI", data |-> data,
   top_left |-> top_left, bottom_right |-> bottom_right, color |-> color]

NoteColor == "#00FF00"

ROIColor == "#0000FF"

\* the data dict of an overlay after its to_dict ran: d['data'] is self.data
\* itself, so update() writes the geometry into the overlay's own dict
ToDictData(o) ==
  CASE o.type = "Note" ->
         Update(o.data, [position |-> <<o.position.x, o.position.y>>,
                         text |-> o.text, color |-> o.color])
    [] o.type = "Ruler" ->
         Update(o.data, [start_point |-> <<o.start_point.x, o.start_point.y>>,
                         end_point |-> <<o.end_point.x, o.end_point.y>>,
                         color |-> o.color,
                         note |-> Get(o.data, "note", NoValue)])
    [] o.type = "ROI" ->
         Update(o.data, [top_left |-> <<o.top_left.x, o.top_left.y>>,
                         bottom_right |-> <<o.bottom_right.x, o.bottom_right.y>>,
                         color |-> o.color])

\* the record to_dict returns
to_dict(o) == [id |-> o.id, type |-> o.type, data |-> ToDictData(o)]

\* the overlay object once to_dict has run on it
AfterToDict(o) == [o EXCEPT !.data = ToDictData(o)]

\* the geometry keys the from_dict of a kind subscripts
GeometryKeys(overlay_type) ==
  CASE overlay_type = "Note" -> {"position"}
    [] overlay_type = "Ruler" -> {"start_point", "end_point"}
    [] overlay_type = "ROI" -> {"top_left", "bottom_right"}
    [] OTHER -> {}

\* from_dict raises TypeError: data.get(key) is None and is subscripted
FromDictRaises(d) ==
  \E key \in GeometryKeys(Get(d, "type", NoValue)) :
     key \notin DOMAIN Get(d, "data", EmptyDict)

TupleToPoint(t) == QPoint(t[1], t[2])

\* AnalysisOverlay.from_dict, on a record it does not raise on; the overlay
\* is built by the constructor and so takes a new id from the clock
from_dict(d, t) ==
  LET overlay_type == Get(d, "type", NoValue)
      data == Get(d, "data", EmptyDict)
  IN CASE overlay_type = "Note" ->
            NoteOverlay(NewId(t), TupleToPoint(data["position"]),
                        Get(data, "text", NoValue), Get(data, "color", NoValue), data)
       [] overlay_type = "Ruler" ->
            RulerOverlay(NewId(t), TupleToPoint(data["start_point"]),
                         TupleToPoint(data["end_point"]), Get(data, "color", NoValue), data)
       [] overlay_type = "ROI" ->
            RegionOfInterestOverlay(NewId(t), TupleToPoint(data["top_left"]),
                                    TupleToPoint(data["bottom_right"]),
                                    Get(data, "color", NoValue), data)
       [] OTHER -> None

Min(S) == CHOOSE m \in S : \A n \in S : m <= n

\* the loop of restore_session over the persisted overlay records: every
\* result of from_dict is appended, and an exception ends the loop
LoadOverlays(overlays_data, t) ==
  LET bad == {i \in 1..Len(overlays_data) : FromDictRaises(overlays_data[i])}
      stop == IF bad = {} THEN Len(overlays_data) ELSE Min(bad) - 1
  IN [loaded |-> [i \in 1..stop |-> from_dict(overlays_data[i], t)],
      raised |-> IF bad = {} THEN "none" ELSE "TypeError"]

\* the loop of closeEvent and export_overlays: to_dict of every overlay
Serialize(overlays) == [i \in 1..Len(overlays) |-> to_dict(overlays[i])]

HasNone(overlays) == \E i \in 1..Len(overlays) : overlays[i] = None

----------------------------------------------------------------------------
(* Rendering.                                                              *)

\* the exception update_zoom ends with: cv2.resize rejects an empty target
\* size, and overlay.draw fails on a None entry of the store
update_zoom_raises(image, scale_percent, overlays) ==
  IF image = None THEN "none"
  ELSE IF ScaledSize(image, scale_percent).width = 0
          \/ ScaledSize(image, scale_percent).height = 0 THEN "cv2.error"
  ELSE IF HasNone(overlays) THEN "AttributeError"
  ELSE "none"

\* update_zoom records the zoom before it renders
update_zoom_settings(s, image, scale_percent) ==
  IF image = None THEN s ELSE [s EXCEPT !.last_zoom = scale_percent]

\* a handler that ends with update_zoom() on the given image, zoom and store;
\* s is the settings store as the handler left it
Rendered(s, image, scale_percent, overlays) ==
  /\ settings' = update_zoom_settings(s, image, scale_percent)
  /\ raised' = update_zoom_raises(image, scale_percent, overlays)
  /\ phase' = IF raised' = "none" THEN "running" ELSE "crashed"

\* a handler that returns without rendering
Returned ==
  /\ settings' = settings
  /\ raised' = "none"
  /\ phase' = "running"

NoAnswer == [ok |-> FALSE, text |-> ""]

\* the record of the handler that ran; the store operations record their
\* index and dialog answer, open_file the image it read, a pointer press or
\* release the number of overlays it committed, a right-button press the
\* number of drawings it cancelled
Event(op, pos, index, ans) == [op |-> op, pos |-> pos, index |-> index, ans |-> ans]

----------------------------------------------------------------------------
(* Construction: ImageZoomViewer.__init__ and restore_session.             *)

\* a QSettings store nothing was saved to; last_zoom 0 and last_file None
\* stand for the absent keys
NoSettings ==
  [last_zoom |-> 0, last_file |-> None, analysis_overlays |-> <<>>,
   analysis_mode_active |-> FALSE, current_analysis_tool |-> "Note",
   enhanced_mode |-> FALSE, contrast_mode |-> 0, saved_annotations |-> <<>>]

NotExported == [written |-> FALSE, records |-> <<>>]

\* no raster was exported yet
NoView == [written |-> FALSE, steps |-> <<>>]

\* the number of contrast modes: len(contrast_names)
ContrastModes == 8

\* restore_session: a saved contrast mode beyond the last name is reset to 0
RestoredContrast(mode) == IF mode >= ContrastModes THEN 0 ELSE mode

\* Annotation.__init__, at time t: data or {}, and the id of the clock
Annotation(annotation_type, position, data, t) ==
  [type |-> annotation_type, position |-> position, data |-> data, id |-> NewId(t)]

\* closeEvent: the record of an annotation; the position is written only
\* when bool(annotation.position) holds
AnnotationRecord(annotation) ==
  LET ann_data == [type |-> annotation.type, id |-> annotation.id,
                   data |-> annotation.data]
  IN IF Truthy(annotation.position)
     THEN SetItem(ann_data, "position",
                  [x |-> annotation.position.x, y |-> annotation.position.y])
     ELSE ann_data

\* closeEvent: the list json.dumps writes under saved_annotations
SaveAnnotations(annotations) ==
  [i \in 1..Len(annotations) |-> AnnotationRecord(annotations[i])]

\* restore_session: the annotation of a saved record, at time t; the saved
\* id replaces the one the constructor made
LoadAnnotation(ann_data, t) ==
  LET position == IF "position" \in DOMAIN ann_data
                  THEN QPoint(ann_data["position"].x, ann_data["position"].y)
                  ELSE None
      annotation == Annotation(ann_data["type"], position, ann_data["data"], t)
  IN [annotation EXCEPT !.id = Get(ann_data, "id", annotation.id)]

\* restore_session: the list loaded from saved_annotations; nothing is
\* saved under the key, or the empty list is, and the list stays empty
LoadAnnotations(annotations_data, t) ==
  [i \in 1..Len(annotations_data) |-> LoadAnnotation(annotations_data[i], t)]

\* restore_session: contrast_names[self.contrast_mode] accepts the negative
\* indices down to -len(contrast_names) and raises IndexError below
ContrastLabelRaises(mode) == mode < 0 - ContrastModes

\* the viewer after __init__ ran on the settings s at time t.  The slider
\* starts at its minimum; restore_session sets the zoom, loads and renders
\* the last file, then loads the overlays and the analysis mode
Constructed(s, t) ==
  LET scale_percent == IF s.last_zoom # 0 THEN SliderValue(s.last_zoom) ELSE ZoomMin
      image == IF ContrastLabelRaises(RestoredContrast(s.contrast_mode))
               THEN None ELSE s.last_file
      render == IF ContrastLabelRaises(RestoredContrast(s.contrast_mode))
                THEN "IndexError"
                ELSE update_zoom_raises(image, scale_percent, <<>>)
      load == LoadOverlays(s.analysis_overlays, t)
      failed == IF render # "none" THEN render ELSE load.raised
  IN [phase |-> IF failed = "none" THEN "running" ELSE "crashed",
      raised |-> failed,
      settings |-> update_zoom_settings(s, image, scale_percent),
      original_image |-> image,
      zoom |-> scale_percent,
      analysis_overlays |-> IF render # "none" THEN <<>> ELSE load.loaded,
      analysis_mode_active |->
        IF failed = "none" THEN s.analysis_mode_active ELSE FALSE,
      current_analysis_tool |->
        IF failed = "none" THEN s.current_analysis_tool ELSE "Note",
      tool_combo |->
        IF failed = "none" THEN s.current_analysis_tool ELSE "Note",
      enhanced_mode |-> s.enhanced_mode,
      contrast_mode |-> RestoredContrast(s.contrast_mode),
      professional_annotations |->
        IF render # "none" THEN <<>> ELSE LoadAnnotations(s.saved_annotations, t)]

\* get_screen_refresh_rate: the frame rate the FPS combo box starts on
ScreenRefreshRate == 60

\* the state after the first launch, on one of the given settings stores
InitFrom(stores) ==
  \E s \in stores :
    LET c == Constructed(s, 0)
    IN /\ phase = c.phase
       /\ raised = c.raised
       /\ now = 0
       /\ settings = c.settings
       /\ exported = NotExported
       /\ original_image = c.original_image
       /\ zoom = c.zoom
       /\ analysis_mode_active = c.analysis_mode_active
       /\ tool_combo = c.tool_combo
       /\ current_analysis_tool = c.current_analysis_tool
       /\ analysis_overlays = c.analysis_overlays
       /\ drawing_overlay = None
       /\ drawing_start_point = None
       /\ contrast_mode = c.contrast_mode
       /\ enhanced_mode = c.enhanced_mode
       /\ trace_enhancement_active = FALSE
       /\ exported_view = NoView
       /\ live_capture_active = FALSE
       /\ capture_timer = None
       /\ timeout_pending = FALSE
       /\ handlers = <<>>
       /\ single_shots = 0
       /\ live_capture_checkbox = FALSE
       /\ fps_combo = ScreenRefreshRate
       /\ panning = FALSE
       /\ pan_start_pos = None
       /\ professional_annotations = c.professional_annotations
       /\ last = Event("__init__", None, 0, NoAnswer)

\* a new launch of the program, after it was closed or it crashed
Launch ==
  /\ phase \in {"closed", "crashed"}
  /\ now < MaxClock
  /\ now' = now + 1
  /\ LET c == Constructed(settings, now + 1)
     IN /\ phase' = c.phase
        /\ raised' = c.raised
        /\ settings' = c.settings
        /\ original_image' = c.original_image
        /\ zoom' = c.zoom
        /\ analysis_mode_active' = c.analysis_mode_active
        /\ tool_combo' = c.tool_combo
        /\ current_analysis_tool' = c.current_analysis_tool
        /\ analysis_overlays' = c.analysis_overlays
        /\ contrast_mode' = c.contrast_mode
        /\ enhanced_mode' = c.enhanced_mode
        /\ professional_annotations' = c.professional_annotations
  /\ live_capture_checkbox' = FALSE
  /\ fps_combo' = ScreenRefreshRate
  /\ panning' = FALSE
  /\ pan_start_pos' = None
  /\ drawing_overlay' = None
  /\ drawing_start_point' = None
  /\ trace_enhancement_active' = FALSE
  /\ live_capture_active' = FALSE
  /\ capture_timer' = None
  /\ timeout_pending' = FALSE
  /\ handlers' = <<>>
  /\ single_shots' = 0
  /\ UNCHANGED <<exported, exported_view>>
  /\ last' = Event("__init__", None, 0, NoAnswer)

\* closeEvent: every overlay is serialised with to_dict and the records, the
\* analysis mode and the tool are saved, then the annotations
closeEvent ==
  /\ phase = "running"
  /\ IF HasNone(analysis_overlays)
     THEN /\ raised' = "AttributeError"
          /\ phase' = "crashed"
          /\ settings' = settings
          /\ analysis_overlays' = analysis_overlays
     ELSE /\ raised' = "none"
          /\ phase' = "closed"
          /\ settings' = [settings EXCEPT
                            !.analysis_overlays = Serialize(analysis_overlays),
                            !.analysis_mode_active = analysis_mode_active,
                            !.current_analysis_tool = current_analysis_tool,
                            !.saved_annotations =
                               SaveAnnotations(professional_annotations)]
          /\ analysis_overlays' =
               [i \in 1..Len(analysis_overlays) |-> AfterToDict(analysis_overlays[i])]
  /\ last' = Event("closeEvent", None, 0, NoAnswer)
  /\ UNCHANGED <<now, exported, original_image, zoom, analysis_mode_active,
                 tool_combo, current_analysis_tool, drawing_overlay,
                 drawing_start_point>>
  /\ UNCHANGED <<filterVars, liveVars>>
  /\ UNCHANGED <<captureVars, panVars, annotationVars>>

\* a millisecond passes
Tick ==
  /\ now < MaxClock
  /\ now' = now + 1
  /\ last' = Event("Tick", None, 0, NoAnswer)
  /\ UNCHANGED <<phase, raised, settings, exported, original_image, zoom,
                 analysis_mode_active, tool_combo, current_analysis_tool,
                 analysis_overlays, drawing_overlay, drawing_start_point>>
  /\ UNCHANGED <<filterVars, liveVars>>
  /\ UNCHANGED <<captureVars, panVars, annotationVars>>

----------------------------------------------------------------------------
(* The view: zoom and source image.                                        *)

\* the zoom slider is set to another value; valueChanged runs update_zoom
SetZoom(value) ==
  /\ phase = "running"
  /\ SliderValue(value) # zoom
  /\ zoom' = SliderValue(value)
  /\ Rendered(settings, original_image, SliderValue(value), analysis_overlays)
  /\ last' = Event("update_zoom", None, value, NoAnswer)
  /\ UNCHANGED <<now, exported, original_image, analysis_mode_active, tool_combo,
                 current_analysis_tool, analysis_overlays, drawing_overlay,
                 drawing_start_point>>
  /\ UNCHANGED <<filterVars, liveVars>>
  /\ UNCHANGED <<captureVars, panVars, annotationVars>>

\* open_file on an image file; file is the shape of the image read, or None
\* when the file dialog is cancelled.  The overlays are kept
open_file(file) ==
  /\ phase = "running"
  /\ IF file = None
     THEN /\ Returned
          /\ original_image' = original_image
     ELSE /\ original_image' = file
          /\ Rendered([settings EXCEPT !.last_file = file], file, zoom, analysis_overlays)
  /\ last' = Event("open_file", file, 0, NoAnswer)
  /\ UNCHANGED <<now, exported, zoom, analysis_mode_active, tool_combo,
                 current_analysis_tool, analysis_overlays, drawing_overlay,
                 drawing_start_point>>
  /\ UNCHANGED <<filterVars, liveVars>>
  /\ UNCHANGED <<captureVars, panVars, annotationVars>>

----------------------------------------------------------------------------
(* The drawing session.                                                    *)

\* toggle_analysis_mode, from the button or the A key
toggle_analysis_mode ==
  /\ phase = "running"
  /\ analysis_mode_active' = ~analysis_mode_active
  /\ IF ~analysis_mode_active
     THEN /\ current_analysis_tool' = tool_combo
          /\ UNCHANGED <<drawing_overlay, drawing_start_point>>
     ELSE /\ drawing_overlay' = None
          /\ drawing_start_point' = None
          /\ UNCHANGED current_analysis_tool
  /\ Returned
  /\ last' = Event("toggle_analysis_mode", None, 0, NoAnswer)
  /\ UNCHANGED <<now, exported, original_image, zoom, tool_combo, analysis_overlays>>
  /\ UNCHANGED <<filterVars, liveVars>>
  /\ UNCHANGED <<captureVars, panVars, annotationVars>>

\* variant: a change of the combo box arms the tool picked at once
SelectTool_arms(tool) ==
  /\ phase = "running"
  /\ analysis_mode_active
  /\ tool # tool_combo
  /\ tool_combo' = tool
  /\ current_analysis_tool' = tool
  /\ Returned
  /\ last' = Event("SelectTool", None, 0, NoAnswer)
  /\ UNCHANGED <<now, exported, original_image, zoom, analysis_mode_active,
                 analysis_overlays, drawing_overlay, drawing_start_point>>
  /\ UNCHANGED <<filterVars, liveVars>>
  /\ UNCHANGED <<captureVars, panVars, annotationVars>>

\* the user picks a tool in the combo box, which is enabled in analysis mode
\* only; no handler is connected to the change
SelectTool(tool) ==
  /\ phase = "running"
  /\ analysis_mode_active
  /\ tool # tool_combo
  /\ tool_combo' = tool
  /\ Returned
  /\ last' = Event("SelectTool", None, 0, NoAnswer)
  /\ UNCHANGED <<now, exported, original_image, zoom, analysis_mode_active,
                 current_analysis_tool, analysis_overlays, drawing_overlay,
                 drawing_start_point>>
  /\ UNCHANGED <<filterVars, liveVars>>
  /\ UNCHANGED <<captureVars, panVars, annotationVars>>

\* variant: a Note is committed whenever its dialog is accepted, the text
\* being empty or not
handle_analysis_mouse_press_any_text(pos, ans) ==
  LET p == get_image_coordinates(pos)
  IN IF p = None
     THEN /\ Returned
          /\ UNCHANGED <<analysis_overlays, drawing_overlay, drawing_start_point>>
     ELSE CASE current_analysis_tool = "Note" ->
                 /\ IF ans.ok
                    THEN /\ Len(analysis_overlays) < MaxOverlays
                         /\ analysis_overlays' =
                              Append(analysis_overlays,
                                     NoteOverlay(NewId(now), p, ans.text, NoteColor, EmptyDict))
                         /\ Rendered(settings, original_image, zoom, analysis_overlays')
                    ELSE /\ Returned
                         /\ UNCHANGED analysis_overlays
                 /\ UNCHANGED <<drawing_overlay, drawing_start_point>>
            [] current_analysis_tool = "Ruler" ->
                 /\ IF ans.ok
                    THEN /\ drawing_start_point' = p
                         /\ drawing_overlay' =
                              RulerOverlay(NewId(now), p, p, ans.text, EmptyDict)
                    ELSE UNCHANGED <<drawing_overlay, drawing_start_point>>
                 /\ Returned
                 /\ UNCHANGED analysis_overlays
            [] current_analysis_tool = "ROI" ->
                 /\ drawing_start_point' = p
                 /\ drawing_overlay' =
                      RegionOfInterestOverlay(NewId(now), p, p, ROIColor, EmptyDict)
                 /\ Returned
                 /\ UNCHANGED analysis_overlays
            [] OTHER ->
                 /\ Returned
                 /\ UNCHANGED <<analysis_overlays, drawing_overlay, drawing_start_point>>

\* handle_analysis_mouse_press at the label position pos; ans is the answer
\* to the dialog the tool opens: the note text, or the ruler colour
handle_analysis_mouse_press(pos, ans) ==
  LET p == get_image_coordinates(pos)
  IN IF p = None
     THEN /\ Returned
          /\ UNCHANGED <<analysis_overlays, drawing_overlay, drawing_start_point>>
     ELSE CASE current_analysis_tool = "Note" ->
                 /\ IF ans.ok /\ ans.text # ""
                    THEN /\ Len(analysis_overlays) < MaxOverlays
                         /\ analysis_overlays' =
                              Append(analysis_overlays,
                                     NoteOverlay(NewId(now), p, ans.text, NoteColor, EmptyDict))
                         /\ Rendered(settings, original_image, zoom, analysis_overlays')
                    ELSE /\ Returned
                         /\ UNCHANGED analysis_overlays
                 /\ UNCHANGED <<drawing_overlay, drawing_start_point>>
            [] current_analysis_tool = "Ruler" ->
                 /\ IF ans.ok
                    THEN /\ drawing_start_point' = p
                         /\ drawing_overlay' =
                              RulerOverlay(NewId(now), p, p, ans.text, EmptyDict)
                    ELSE UNCHANGED <<drawing_overlay, drawing_start_point>>
                 /\ Returned
                 /\ UNCHANGED analysis_overlays
            [] current_analysis_tool = "ROI" ->
                 /\ drawing_start_point' = p
                 /\ drawing_overlay' =
                      RegionOfInterestOverlay(NewId(now), p, p, ROIColor, EmptyDict)
                 /\ Returned
                 /\ UNCHANGED analysis_overlays
            [] OTHER ->
                 /\ Returned
                 /\ UNCHANGED <<analysis_overlays, drawing_overlay, drawing_start_point>>

\* mousePressEvent, left button
mousePressLeft(pos, ans) ==
  /\ phase = "running"
  /\ IF analysis_mode_active
     THEN /\ handle_analysis_mouse_press(pos, ans)
          /\ UNCHANGED panVars
     ELSE /\ panning' = TRUE
          /\ pan_start_pos' = pos
          /\ Returned
          /\ UNCHANGED <<analysis_overlays, drawing_overlay, drawing_start_point>>
  /\ last' = Event("mousePress", None,
                   Len(analysis_overlays') - Len(analysis_overlays), NoAnswer)
  /\ UNCHANGED <<now, exported, original_image, zoom, analysis_mode_active,
                 tool_combo, current_analysis_tool>>
  /\ UNCHANGED <<filterVars, liveVars>>
  /\ UNCHANGED <<captureVars, annotationVars>>

\* variant: the right button forgets the start point but keeps the draft
mousePressRight_keeps_draft ==
  /\ phase = "running"
  /\ IF analysis_mode_active /\ drawing_overlay # None
     THEN /\ drawing_overlay' = drawing_overlay
          /\ drawing_start_point' = None
          /\ Rendered(settings, original_image, zoom, analysis_overlays)
     ELSE /\ Returned
          /\ UNCHANGED <<drawing_overlay, drawing_start_point>>
  /\ last' = Event("mousePressRight", None,
                   IF analysis_mode_active /\ drawing_overlay # None THEN 1 ELSE 0,
                   NoAnswer)
  /\ UNCHANGED <<now, exported, original_image, zoom, analysis_mode_active,
                 tool_combo, current_analysis_tool, analysis_overlays>>
  /\ UNCHANGED <<filterVars, liveVars>>
  /\ UNCHANGED <<captureVars, panVars, annotationVars>>

\* mousePressEvent, right button: the drawing in progress is cancelled
mousePressRight ==
  /\ phase = "running"
  /\ IF analysis_mode_active /\ drawing_overlay # None
     THEN /\ drawing_overlay' = None
          /\ drawing_start_point' = None
          /\ Rendered(settings, original_image, zoom, analysis_overlays)
     ELSE /\ Returned
          /\ UNCHANGED <<drawing_overlay, drawing_start_point>>
  /\ last' = Event("mousePressRight", None,
                   IF analysis_mode_active /\ drawing_overlay # None THEN 1 ELSE 0,
                   NoAnswer)
  /\ UNCHANGED <<now, exported, original_image, zoom, analysis_mode_active,
                 tool_combo, current_analysis_tool, analysis_overlays>>
  /\ UNCHANGED <<filterVars, liveVars>>
  /\ UNCHANGED <<captureVars, panVars, annotationVars>>

\* the draft with its free end point (Ruler end_point, ROI bottom_right) at p
WithFreeEnd(overlay, p) ==
  IF overlay.type = "Ruler"
  THEN [overlay EXCEPT !.end_point = p]
  ELSE [overlay EXCEPT !.bottom_right = p]

\* handle_analysis_mouse_move
handle_analysis_mouse_move(pos) ==
  LET p == get_image_coordinates(pos)
  IN IF p # None /\ drawing_overlay # None /\ Truthy(drawing_start_point)
     THEN /\ drawing_overlay' = WithFreeEnd(drawing_overlay, p)
          /\ Rendered(settings, original_image, zoom, analysis_overlays)
     ELSE /\ Returned
          /\ UNCHANGED drawing_overlay

\* mouseMoveEvent; while panning the viewport is scrolled by the distance
\* from pan_start_pos, which then follows the pointer
mouseMoveEvent(pos) ==
  /\ phase = "running"
  /\ IF analysis_mode_active
     THEN /\ handle_analysis_mouse_move(pos)
          /\ UNCHANGED pan_start_pos
     ELSE /\ pan_start_pos' = IF panning /\ Truthy(pan_start_pos)
                              THEN pos ELSE pan_start_pos
          /\ Returned
          /\ UNCHANGED drawing_overlay
  /\ last' = Event("mouseMove", None, 0, NoAnswer)
  /\ UNCHANGED <<now, exported, original_image, zoom, analysis_mode_active, tool_combo,
                 current_analysis_tool, analysis_overlays, drawing_start_point>>
  /\ UNCHANGED <<filterVars, liveVars>>
  /\ UNCHANGED <<captureVars, panning, annotationVars>>

\* the draft as handle_analysis_mouse_release commits it: the free end point
\* at p, and the note when the dialog was accepted with a non-empty text
Completed(overlay, p, ans) ==
  LET ended == WithFreeEnd(overlay, p)
  IN IF ans.ok /\ ans.text # ""
     THEN [ended EXCEPT !.data = SetItem(ended.data, "note", ans.text)]
     ELSE ended

\* variant: the draft is committed but stays the drawing in progress
handle_analysis_mouse_release_keeps_draft(pos, ans) ==
  LET p == get_image_coordinates(pos)
  IN IF drawing_overlay # None /\ Truthy(drawing_start_point) /\ p # None
     THEN /\ Len(analysis_overlays) < MaxOverlays
          /\ analysis_overlays' =
               Append(analysis_overlays, Completed(drawing_overlay, p, ans))
          /\ drawing_overlay' = Completed(drawing_overlay, p, ans)
          /\ drawing_start_point' = drawing_start_point
          /\ Rendered(settings, original_image, zoom, analysis_overlays')
     ELSE /\ Returned
          /\ UNCHANGED <<analysis_overlays, drawing_overlay, drawing_start_point>>

\* handle_analysis_mouse_release; ans is the answer to the note dialog
handle_analysis_mouse_release(pos, ans) ==
  LET p == get_image_coordinates(pos)
  IN IF drawing_overlay # None /\ Truthy(drawing_start_point) /\ p # None
     THEN /\ Len(analysis_overlays) < MaxOverlays
          /\ analysis_overlays' =
               Append(analysis_overlays, Completed(drawing_overlay, p, ans))
          /\ drawing_overlay' = None
          /\ drawing_start_point' = None
          /\ Rendered(settings, original_image, zoom, analysis_overlays')
     ELSE /\ Returned
          /\ UNCHANGED <<analysis_overlays, drawing_overlay, drawing_start_point>>

\* mouseReleaseEvent, left button
mouseReleaseLeft(pos, ans) ==
  /\ phase = "running"
  /\ IF analysis_mode_active
     THEN /\ handle_analysis_mouse_release(pos, ans)
          /\ UNCHANGED panning
     ELSE /\ panning' = FALSE
          /\ Returned
          /\ UNCHANGED <<analysis_overlays, drawing_overlay, drawing_start_point>>
  /\ last' = Event("mouseRelease", None,
                   Len(analysis_overlays') - Len(analysis_overlays), NoAnswer)
  /\ UNCHANGED <<now, exported, original_image, zoom, analysis_mode_active,
                 tool_combo, current_analysis_tool>>
  /\ UNCHANGED <<filterVars, liveVars>>
  /\ UNCHANGED <<captureVars, pan_start_pos, annotationVars>>

----------------------------------------------------------------------------
(* The overlay store, as the "Manage Overlays" panel operates on it.  The  *)
(* panel fills its table from the type of every entry of the store before  *)
(* it shows its buttons.                                                   *)

\* show_annotations_panel: refresh_table reads overlay.type of every entry
show_annotations_panel ==
  /\ phase = "running"
  /\ raised' = IF HasNone(analysis_overlays) THEN "AttributeError" ELSE "none"
  /\ phase' = IF HasNone(analysis_overlays) THEN "crashed" ELSE "running"
  /\ last' = Event("show_annotations_panel", None, 0, NoAnswer)
  /\ UNCHANGED <<now, settings, exported, original_image, zoom, analysis_mode_active,
                 tool_combo, current_analysis_tool, analysis_overlays,
                 drawing_overlay, drawing_start_point>>
  /\ UNCHANGED <<filterVars, liveVars>>
  /\ UNCHANGED <<captureVars, panVars, annotationVars>>

\* variant: the last element takes the place of the deleted one
DeleteAtSwap(overlays, index) ==
  [i \in 1..(Len(overlays) - 1) |->
     IF i = index + 1 THEN overlays[Len(overlays)] ELSE overlays[i]]

\* the sequence without its element at the 0-based index
DeleteAt(overlays, index) ==
  [i \in 1..(Len(overlays) - 1) |->
     IF i <= index THEN overlays[i] ELSE overlays[i + 1]]

\* variant: no lower bound on the index, so that del takes a negative index
\* from the end of the list
delete_overlay_unguarded(index) ==
  /\ phase = "running"
  /\ ~HasNone(analysis_overlays)
  /\ IF -Len(analysis_overlays) <= index /\ index < Len(analysis_overlays)
     THEN /\ analysis_overlays' =
               DeleteAt(analysis_overlays,
                        IF index < 0 THEN index + Len(analysis_overlays) ELSE index)
          /\ Rendered(settings, original_image, zoom, analysis_overlays')
     ELSE /\ Returned
          /\ UNCHANGED analysis_overlays
  /\ last' = Event("delete_overlay", None, index, NoAnswer)
  /\ UNCHANGED <<now, exported, original_image, zoom, analysis_mode_active, tool_combo,
                 current_analysis_tool, drawing_overlay, drawing_start_point>>
  /\ UNCHANGED <<filterVars, liveVars>>
  /\ UNCHANGED <<captureVars, panVars, annotationVars>>

\* delete_overlay(index, refresh_callback)
delete_overlay(index) ==
  /\ phase = "running"
  /\ ~HasNone(analysis_overlays)
  /\ IF 0 <= index /\ index < Len(analysis_overlays)
     THEN /\ analysis_overlays' = DeleteAt(analysis_overlays, index)
          /\ Rendered(settings, original_image, zoom, analysis_overlays')
     ELSE /\ Returned
          /\ UNCHANGED analysis_overlays
  /\ last' = Event("delete_overlay", None, index, NoAnswer)
  /\ UNCHANGED <<now, exported, original_image, zoom, analysis_mode_active, tool_combo,
                 current_analysis_tool, drawing_overlay, drawing_start_point>>
  /\ UNCHANGED <<filterVars, liveVars>>
  /\ UNCHANGED <<captureVars, panVars, annotationVars>>

\* variant: an accepted edit also recolours the overlay
EditedRecoloured(overlay, text) ==
  CASE overlay.type = "Note" -> [overlay EXCEPT !.text = text, !.color = "#ff0000"]
    [] overlay.type = "ROI" ->
         [overlay EXCEPT !.data = SetItem(overlay.data, "note", text),
                         !.color = "#ff0000"]
    [] overlay.type = "Ruler" ->
         [overlay EXCEPT !.data = SetItem(overlay.data, "note", text),
                         !.color = "#00ff00"]
    [] OTHER -> overlay

\* the overlay after an accepted edit dialog returned text
Edited(overlay, text) ==
  CASE overlay.type = "Note" -> [overlay EXCEPT !.text = text]
    [] overlay.type = "ROI" ->
         IF text # ""
         THEN [overlay EXCEPT !.data = SetItem(overlay.data, "note", text)]
         ELSE [overlay EXCEPT !.data = Pop(overlay.data, "note")]
    [] overlay.type = "Ruler" ->
         [overlay EXCEPT !.data = SetItem(overlay.data, "note", text)]
    [] OTHER -> overlay

\* QInputDialog.getText rejects the None a Ruler's note holds once to_dict
\* ran on a Ruler that had no note
EditDialogRaises(overlay) ==
  overlay.type = "Ruler" /\ Get(overlay.data, "note", "") = NoValue

\* edit_overlay(index, refresh_callback); ans is the answer to the dialog
edit_overlay(index, ans) ==
  /\ phase = "running"
  /\ ~HasNone(analysis_overlays)
  /\ IF 0 <= index /\ index < Len(analysis_overlays)
     THEN IF EditDialogRaises(analysis_overlays[index + 1])
          THEN /\ last' = Event("edit_overlay", None, index, NoAnswer)
               /\ raised' = "TypeError"
               /\ phase' = "crashed"
               /\ UNCHANGED <<settings, analysis_overlays>>
          ELSE /\ last' = Event("edit_overlay", None, index, ans)
               /\ IF ans.ok
                  THEN /\ analysis_overlays' =
                            [analysis_overlays EXCEPT
                               ![index + 1] = Edited(analysis_overlays[index + 1], ans.text)]
                       /\ Rendered(settings, original_image, zoom, analysis_overlays')
                  ELSE /\ Returned
                       /\ UNCHANGED analysis_overlays
     ELSE /\ last' = Event("edit_overlay", None, index, NoAnswer)
          /\ Returned
          /\ UNCHANGED analysis_overlays
  /\ UNCHANGED <<now, exported, original_image, zoom, analysis_mode_active, tool_combo,
                 current_analysis_tool, drawing_overlay, drawing_start_point>>
  /\ UNCHANGED <<filterVars, liveVars>>
  /\ UNCHANGED <<captureVars, panVars, annotationVars>>

\* variant: the reply is read the wrong way round
clear_all_overlays_inverted(yes) ==
  /\ phase = "running"
  /\ ~HasNone(analysis_overlays)
  /\ IF ~yes
     THEN /\ analysis_overlays' = <<>>
          /\ Rendered(settings, original_image, zoom, <<>>)
     ELSE /\ Returned
          /\ UNCHANGED analysis_overlays
  /\ last' = Event("clear_all_overlays", None, Len(analysis_overlays),
                   [ok |-> yes, text |-> ""])
  /\ UNCHANGED <<now, exported, original_image, zoom, analysis_mode_active, tool_combo,
                 current_analysis_tool, drawing_overlay, drawing_start_point>>
  /\ UNCHANGED <<filterVars, liveVars>>
  /\ UNCHANGED <<captureVars, panVars, annotationVars>>

\* clear_all_overlays; yes is the reply to the confirmation.  The event
\* records the size of the store the question was asked about.
clear_all_overlays(yes) ==
  /\ phase = "running"
  /\ ~HasNone(analysis_overlays)
  /\ IF yes
     THEN /\ analysis_overlays' = <<>>
          /\ Rendered(settings, original_image, zoom, <<>>)
     ELSE /\ Returned
          /\ UNCHANGED analysis_overlays
  /\ last' = Event("clear_all_overlays", None, Len(analysis_overlays),
                   [ok |-> yes, text |-> ""])
  /\ UNCHANGED <<now, exported, original_image, zoom, analysis_mode_active, tool_combo,
                 current_analysis_tool, drawing_overlay, drawing_start_point>>
  /\ UNCHANGED <<filterVars, liveVars>>
  /\ UNCHANGED <<captureVars, panVars, annotationVars>>

\* export_overlays; chosen tells whether a file name was chosen
export_overlays(chosen) ==
  /\ phase = "running"
  /\ ~HasNone(analysis_overlays)
  /\ IF chosen
     THEN /\ exported' = [written |-> TRUE, records |-> Serialize(analysis_overlays)]
          /\ analysis_overlays' =
               [i \in 1..Len(analysis_overlays) |-> AfterToDict(analysis_overlays[i])]
     ELSE UNCHANGED <<exported, analysis_overlays>>
  /\ Returned
  /\ last' = Event("export_overlays", None, 0, [ok |-> chosen, text |-> ""])
  /\ UNCHANGED <<now, original_image, zoom, analysis_mode_active, tool_combo,
                 current_analysis_tool, drawing_overlay, drawing_start_point>>
  /\ UNCHANGED <<filterVars, liveVars>>
  /\ UNCHANGED <<captureVars, panVars, annotationVars>>

----------------------------------------------------------------------------
(* Inputs.                                                                 *)

Tools == {"Note", "Ruler", "ROI"}

\* answers of a text dialog: cancelled, accepted empty, accepted with a text
TextAnswers ==
  {[ok |-> FALSE, text |-> ""], [ok |-> TRUE, text |-> ""],
   [ok |-> TRUE, text |-> "baseline"]}

\* answers of the colour dialog: cancelled (invalid colour), or a colour name
ColorAnswers == {[ok |-> FALSE, text |-> ""], [ok |-> TRUE, text |-> "#ff0000"]}

\* the dialog handle_analysis_mouse_press opens, by mode and tool
PressAnswers ==
  IF ~analysis_mode_active THEN {NoAnswer}
  ELSE IF current_analysis_tool = "Note" THEN TextAnswers
  ELSE IF current_analysis_tool = "Ruler" THEN ColorAnswers
  ELSE {NoAnswer}

\* image files of the drawing-session specification, by shape
ImageFiles == {Image(2, 2)}

\* zoom values of the drawing-session specification
ZoomChoices == {100, 200}

\* label-relative event positions of the drawing-session specification
DevicePoints == {QPoint(-1, 0), QPoint(0, 0), QPoint(2, 1)}

\* a store with a zoom of 100 % saved and nothing else
SessionSettings == [NoSettings EXCEPT !.last_zoom = 100]

----------------------------------------------------------------------------
(* The drawing session: pointer events, tool selection, zoom and image     *)
(* loads on a running viewer.                                              *)

Init == InitFrom({SessionSettings})

Next ==
  \/ toggle_analysis_mode
  \/ \E tool \in Tools : SelectTool(tool)
  \/ \E pos \in DevicePoints, ans \in PressAnswers : mousePressLeft(pos, ans)
  \/ mousePressRight
  \/ \E pos \in DevicePoints : mouseMoveEvent(pos)
  \/ \E pos \in DevicePoints, ans \in TextAnswers : mouseReleaseLeft(pos, ans)
  \/ \E value \in ZoomChoices : SetZoom(value)
  \/ \E file \in ImageFiles \cup {None} : open_file(file)

Spec == Init /\ [][Next]_vars

----------------------------------------------------------------------------
(* Persistence: launches on settings stores written by earlier sessions,   *)
(* closeEvent, and a new launch on what closeEvent saved.                  *)

\* persisted overlay records of an earlier session (ids of earlier times)
NoteRecord ==
  [id |-> -3, type |-> "Note",
   data |-> [position |-> <<1, 0>>, text |-> "spike", color |-> NoteColor]]

RulerRecord ==
  [id |-> -2, type |-> "Ruler",
   data |-> [start_point |-> <<1, 1>>, end_point |-> <<0, 1>>,
             color |-> "#ff0000", note |-> "baseline"]]

ROIRecord ==
  [id |-> -1, type |-> "ROI",
   data |-> [top_left |-> <<0, 0>>, bottom_right |-> <<1, 1>>, color |-> ROIColor]]

\* a record of a kind this version does not know
UnknownRecord == [id |-> -2, type |-> "Unknown", data |-> EmptyDict]

\* a Ruler record that lacks its end_point
MalformedRecord ==
  [id |-> -2, type |-> "Ruler",
   data |-> [start_point |-> <<1, 1>>, color |-> "#ff0000"]]

\* the settings an earlier session saved with the given overlay records
Saved(records) ==
  [NoSettings EXCEPT !.last_zoom = 100, !.last_file = Image(2, 2),
                     !.analysis_overlays = records]

\* label-relative event positions of the persistence and store specifications
StorePoints == {QPoint(1, 1)}

PersistSettings ==
  { Saved(<<>>),
    Saved(<<NoteRecord, RulerRecord, ROIRecord>>),
    Saved(<<NoteRecord, UnknownRecord, ROIRecord>>),
    Saved(<<NoteRecord, MalformedRecord, ROIRecord>>) }

\* image files of the persistence specification, by shape
PersistImageFiles == {Image(2, 2), Image(1, 2)}

InitPersist == InitFrom(PersistSettings)

NextPersist ==
  \/ Launch
  \/ closeEvent
  \/ Tick
  \/ show_annotations_panel
  \/ \E value \in ZoomChoices : SetZoom(value)
  \/ \E file \in PersistImageFiles \cup {None} : open_file(file)
  \/ \E chosen \in BOOLEAN : export_overlays(chosen)
  \/ toggle_analysis_mode
  \/ \E pos \in StorePoints, ans \in PressAnswers : mousePressLeft(pos, ans)

SpecPersist == InitPersist /\ [][NextPersist]_vars

----------------------------------------------------------------------------
(* The overlay store: the operations of the "Manage Overlays" panel on     *)
(* stores of up to three overlays, and notes added in analysis mode.       *)

\* indices the store operations are called with, valid and invalid
IndexChoices == {-1, 0, 1, 2, 3, 5}

StoreSettings ==
  { [Saved(records) EXCEPT !.analysis_mode_active = TRUE] :
      records \in { <<>>, <<NoteRecord>>, <<NoteRecord, RulerRecord, ROIRecord>> } }

InitStore == InitFrom(StoreSettings)

NextStore ==
  \/ \E index \in IndexChoices : delete_overlay(index)
  \/ \E index \in IndexChoices, ans \in TextAnswers : edit_overlay(index, ans)
  \/ \E yes \in BOOLEAN : clear_all_overlays(yes)
  \/ \E chosen \in BOOLEAN : export_overlays(chosen)
  \/ \E pos \in StorePoints, ans \in PressAnswers : mousePressLeft(pos, ans)
  \/ closeEvent

SpecStore == InitStore /\ [][NextStore]_vars

----------------------------------------------------------------------------
(* The coordinate mapping as a function: an image point is mapped to the   *)
(* device as the draw methods do, and back by get_image_coordinates.       *)

\* the image points probed: both coordinates range over 0..MaxCoord
CoordPoints == {QPoint(x, MaxCoord - x) : x \in 0..MaxCoord}

NoProbe == [p |-> None, d |-> None, back |-> None]

InitCoord ==
  /\ phase = "running"
  /\ raised = "none"
  /\ now = 0
  /\ zoom \in ZoomMin..ZoomMax
  /\ original_image = Image(MaxCoord + 1, MaxCoord + 1)
  /\ settings = [NoSettings EXCEPT !.last_zoom = zoom, !.last_file = original_image]
  /\ exported = NotExported
  /\ analysis_mode_active = FALSE
  /\ tool_combo = "Note"
  /\ current_analysis_tool = "Note"
  /\ analysis_overlays = <<>>
  /\ drawing_overlay = None
  /\ drawing_start_point = None
  /\ contrast_mode = 0
  /\ enhanced_mode = FALSE
  /\ trace_enhancement_active = FALSE
  /\ exported_view = NoView
  /\ live_capture_active = FALSE
  /\ capture_timer = None
  /\ timeout_pending = FALSE
  /\ handlers = <<>>
  /\ single_shots = 0
  /\ live_capture_checkbox = FALSE
  /\ fps_combo = ScreenRefreshRate
  /\ panning = FALSE
  /\ pan_start_pos = None
  /\ professional_annotations = <<>>
  /\ last = Event("__init__", NoProbe, 0, NoAnswer)

\* a draw method paints the image point p at the current zoom
DrawPoint(p) ==
  /\ last' = Event("draw", [p |-> p, d |-> scaled_pos(p, zoom), back |-> None],
                   0, NoAnswer)
  /\ UNCHANGED <<phase, raised, now, settings, exported, original_image, zoom,
                 analysis_mode_active, tool_combo, current_analysis_tool,
                 analysis_overlays, drawing_overlay, drawing_start_point>>
  /\ UNCHANGED <<filterVars, liveVars>>
  /\ UNCHANGED <<captureVars, panVars, annotationVars>>

\* the painted device point is mapped back to the image
MapBack ==
  /\ last.op = "draw"
  /\ last' = Event("get_image_coordinates",
                   [last.pos EXCEPT !.back = get_image_coordinates(last.pos.d)],
                   0, NoAnswer)
  /\ UNCHANGED <<phase, raised, now, settings, exported, original_image, zoom,
                 analysis_mode_active, tool_combo, current_analysis_tool,
                 analysis_overlays, drawing_overlay, drawing_start_point>>
  /\ UNCHANGED <<filterVars, liveVars>>
  /\ UNCHANGED <<captureVars, panVars, annotationVars>>

\* label-relative device positions around the edges of the rendered bitmap:
\* one pixel before its first row and column, its corners, and the first
\* positions past its last column and row
EdgeDevicePoints ==
  LET w == ScaledSize(original_image, zoom).width
      h == ScaledSize(original_image, zoom).height
  IN {QPoint(-1, 0), QPoint(0, -1), QPoint(0, 0), QPoint(w - 1, h - 1),
      QPoint(w, 0), QPoint(0, h)}

\* get_image_coordinates is called with the device position d
ProbeDevice(d) ==
  /\ last' = Event("ProbeDevice",
                   [p |-> None, d |-> d, back |-> get_image_coordinates(d)],
                   0, NoAnswer)
  /\ UNCHANGED <<phase, raised, now, settings, exported, original_image, zoom,
                 analysis_mode_active, tool_combo, current_analysis_tool,
                 analysis_overlays, drawing_overlay, drawing_start_point>>
  /\ UNCHANGED <<filterVars, liveVars>>
  /\ UNCHANGED <<captureVars, panVars, annotationVars>>

NextCoord ==
  \/ \E p \in CoordPoints : DrawPoint(p)
  \/ MapBack
  \/ \E d \in EdgeDevicePoints : ProbeDevice(d)

SpecCoord == InitCoord /\ [][NextCoord]_vars

----------------------------------------------------------------------------
(* Properties.                                                             *)

KnownKind(record) == Get(record, "type", NoValue) \in Tools

WellFormed(record) == ~FromDictRaises(record)

\* C1: a store saved by closeEvent and rebuilt by the next launch's
\* restore_session is the same sequence of overlays, equal field for field,
\* ids included.
C1_RoundTripKeepsStore ==
  [][(phase = "closed" /\ last'.op = "__init__")
       => analysis_overlays' = analysis_overlays]_vars

\* C2: when the persisted records hold records of an unknown kind (and no
\* malformed record), restore_session loads exactly one overlay per record
\* of a known kind, leaves no placeholder in the store and raises nothing.
C2_UnknownKindSkipped ==
  LET records == settings.analysis_overlays
  IN (last.op = "__init__" /\ \A i \in 1..Len(records) : WellFormed(records[i]))
       => /\ raised = "none"
          /\ Len(analysis_overlays) =
               Cardinality({i \in 1..Len(records) : KnownKind(records[i])})
          /\ ~HasNone(analysis_overlays)

\* C3: when a persisted record of a known kind lacks a geometry field,
\* restore_session skips that record only: nothing is raised and the store
\* holds the well-formed records, in order.
C3_MalformedRecordSkipped ==
  LET records == settings.analysis_overlays
      good == SelectSeq(records, WellFormed)
  IN (last.op = "__init__" /\ \A i \in 1..Len(records) : KnownKind(records[i]))
       => /\ raised = "none"
          /\ Len(analysis_overlays) = Len(good)
          /\ \A k \in 1..Len(good) :
                /\ analysis_overlays[k].type = good[k].type
                /\ ToDictData(analysis_overlays[k]) = good[k].data

\* C4: in analysis mode with the Ruler tool, a press at an in-bounds point
\* with a valid colour starts a Ruler draft at that point in that colour,
\* moves keep its start and colour, and an in-bounds release with a
\* non-empty note appends exactly that Ruler (start, release point, colour,
\* note) to the store and leaves the earlier overlays as they were.
C4_RulerGestureCommits ==
  [][/\ \A pos \in DevicePoints, ans \in ColorAnswers :
          ( /\ analysis_mode_active /\ current_analysis_tool = "Ruler"
            /\ get_image_coordinates(pos) # None /\ ans.ok
            /\ mousePressLeft(pos, ans) )
          => /\ drawing_overlay' =
                  RulerOverlay(NewId(now), get_image_coordinates(pos),
                               get_image_coordinates(pos), ans.text, EmptyDict)
             /\ analysis_overlays' = analysis_overlays
     /\ \A pos \in DevicePoints :
          ( /\ drawing_overlay # None /\ drawing_overlay.type = "Ruler"
            /\ mouseMoveEvent(pos) )
          => /\ drawing_overlay' # None
             /\ drawing_overlay'.start_point = drawing_overlay.start_point
             /\ drawing_overlay'.color = drawing_overlay.color
             /\ analysis_overlays' = analysis_overlays
     /\ \A pos \in DevicePoints, ans \in TextAnswers :
          ( /\ analysis_mode_active
            /\ drawing_overlay # None /\ drawing_overlay.type = "Ruler"
            /\ get_image_coordinates(pos) # None /\ ans.ok /\ ans.text # ""
            /\ mouseReleaseLeft(pos, ans) )
          => analysis_overlays' =
               Append(analysis_overlays,
                      RulerOverlay(drawing_overlay.id, drawing_overlay.start_point,
                                   get_image_coordinates(pos), drawing_overlay.color,
                                   SetItem(drawing_overlay.data, "note", ans.text)))
    ]_vars

\* the exact quotient pos / (zoom / 100) lies outside the image, or there is
\* no image
OutOfBoundsDevice(pos) ==
  \/ original_image = None
  \/ pos.x < 0
  \/ pos.y < 0
  \/ pos.x * 100 >= original_image.width * zoom
  \/ pos.y * 100 >= original_image.height * zoom

\* C5: get_image_coordinates returns None for every out-of-bounds device
\* point, and a press, move or release at such a point leaves the tool, the
\* draft, the drawing start point and the store unchanged.
C5_OutOfBoundsIgnored ==
  [][\A pos \in DevicePoints :
       OutOfBoundsDevice(pos)
       => /\ get_image_coordinates(pos) = None
          /\ ( \/ \E ans \in PressAnswers : mousePressLeft(pos, ans)
               \/ mouseMoveEvent(pos)
               \/ \E ans \in TextAnswers : mouseReleaseLeft(pos, ans) )
             => UNCHANGED <<current_analysis_tool, drawing_overlay,
                            drawing_start_point, analysis_overlays>>
    ]_vars

CeilDiv(a, b) == (a + b - 1) \div b

\* the image point drawn, painted and mapped back by the last two steps
Probe == last.pos

\* C6 as stated: at every zoom in 10..400 the image point mapped to the
\* device as the draw methods do and back as get_image_coordinates does
\* differs from the point drawn by at most 1 pixel in each coordinate.
C6_RoundTripWithinOnePixel ==
  last.op = "get_image_coordinates"
    => /\ Probe.back # None
       /\ Abs(Probe.back.x - Probe.p.x) <= 1
       /\ Abs(Probe.back.y - Probe.p.y) <= 1

\* C6, amended: the point mapped back is never beyond the point drawn and
\* falls short of it by at most ceil(100 / scale_percent) pixels in each
\* coordinate, which is 1 pixel for every scale_percent of 100 or more.
C6_RoundTripDrift ==
  last.op = "get_image_coordinates"
    => /\ Probe.back # None
       /\ Probe.p.x - CeilDiv(100, zoom) <= Probe.back.x
       /\ Probe.back.x <= Probe.p.x
       /\ Probe.p.y - CeilDiv(100, zoom) <= Probe.back.y
       /\ Probe.back.y <= Probe.p.y

\* at 10 percent the image point (19, 6) is painted at (1, 0) and mapped
\* back to (10, 0)
C6_DriftReached ==
  /\ last.op = "get_image_coordinates"
  /\ zoom = ZoomMin
  /\ Probe.p = QPoint(19, MaxCoord - 19)
  /\ Probe.back = QPoint(10, 0)

InvalidIndex(index) == index < 0 \/ index >= Len(analysis_overlays)

\* C7: delete_overlay with an index outside 0..size-1 ends with an index
\* error reported to its caller.
C7_DeleteReportsIndexError ==
  [][\A index \in IndexChoices :
       (InvalidIndex(index) /\ delete_overlay(index)) => raised' = "IndexError"]_vars

\* C8: delete_overlay and edit_overlay with an index outside 0..size-1,
\* negative indices included, leave the overlay store as it was.
C8_InvalidIndexKeepsStore ==
  [][( /\ last'.op \in {"delete_overlay", "edit_overlay"}
       /\ InvalidIndex(last'.index) )
     => analysis_overlays' = analysis_overlays]_vars

\* delete_overlay(-1) and edit_overlay(5) have run on a store that holds
\* overlays
C8_InvalidIndexTried ==
  /\ last.op \in {"delete_overlay", "edit_overlay"}
  /\ last.index \in {-1, 5}
  /\ Len(analysis_overlays) > 0

\* C9: a confirmed clear_all_overlays empties a non-empty store, an export
\* or a close that follows writes an empty sequence of records, and a
\* declined clear_all_overlays leaves the store as it was.
C9_ClearEmptiesStore ==
  [][/\ ( /\ last'.op = "clear_all_overlays" /\ last'.ans.ok
          /\ analysis_overlays # <<>> )
          => Len(analysis_overlays') = 0
     /\ (last'.op = "clear_all_overlays" /\ ~last'.ans.ok)
          => analysis_overlays' = analysis_overlays
     /\ ( /\ last.op = "clear_all_overlays" /\ last.ans.ok
          /\ last'.op = "export_overlays" /\ last'.ans.ok )
          => exported'.records = <<>>
     /\ ( /\ last.op = "clear_all_overlays" /\ last.ans.ok
          /\ last'.op = "closeEvent" /\ raised' = "none" )
          => settings'.analysis_overlays = <<>>
    ]_vars

\* a confirmed clear_all_overlays has emptied a store that held overlays
C9_ClearedNonEmpty ==
  /\ last.op = "clear_all_overlays"
  /\ last.ans.ok
  /\ last.index > 0
  /\ Len(analysis_overlays) = 0

\* the geometry points of an overlay
GeometryPoints(overlay) ==
  CASE overlay.type = "Note" -> {overlay.position}
    [] overlay.type = "Ruler" -> {overlay.start_point, overlay.end_point}
    [] overlay.type = "ROI" -> {overlay.top_left, overlay.bottom_right}

\* C10: whenever an image is loaded, every geometry point of every overlay
\* of the store lies within [0, width) x [0, height) of that image.
C10_GeometryWithinImage ==
  (phase = "running" /\ original_image # None)
    => \A i \in 1..Len(analysis_overlays) :
         analysis_overlays[i] # None
           => \A p \in GeometryPoints(analysis_overlays[i]) :
                /\ 0 <= p.x /\ p.x < original_image.width
                /\ 0 <= p.y /\ p.y < original_image.height

\* C11: the overlays of the store have pairwise distinct ids, overlays
\* rebuilt together by restore_session included.
C11_IdsDistinct ==
  \A i, j \in 1..Len(analysis_overlays) :
    ( /\ i # j
      /\ analysis_overlays[i] # None
      /\ analysis_overlays[j] # None )
    => analysis_overlays[i].id # analysis_overlays[j].id

----------------------------------------------------------------------------
(* The image pipeline.  A raster is represented by the sequence of the     *)
(* transform steps applied to the source image.                            *)

Step(op, arg) == [op |-> op, arg |-> arg]

\* the filter branch both pipelines select: none unless enhanced mode is
\* checked and the contrast mode is one of 1..7
FilterSteps(mode, enhanced) ==
  IF enhanced /\ mode # 0 /\ mode \in 1..(ContrastModes - 1)
  THEN <<Step("filter", mode)>>
  ELSE <<>>

\* update_zoom: filter, then trace enhancement, then cv2.resize
update_zoom_steps(mode, enhanced, trace, scale_percent) ==
  FilterSteps(mode, enhanced)
    \o (IF trace THEN <<Step("trace", 0)>> ELSE <<>>)
    \o <<Step("resize", scale_percent)>>

\* export_current_view: cv2.resize of the source image, then filter
export_current_view_steps(mode, enhanced, scale_percent) ==
  <<Step("resize", scale_percent)>> \o FilterSteps(mode, enhanced)

\* keyPressEvent, key C: the next contrast mode; rendered unless capturing live
keyPressC ==
  /\ phase = "running"
  /\ contrast_mode' = (contrast_mode + 1) % ContrastModes
  /\ IF live_capture_active
     THEN /\ settings' = [settings EXCEPT !.contrast_mode = contrast_mode']
          /\ raised' = "none"
          /\ phase' = "running"
     ELSE Rendered([settings EXCEPT !.contrast_mode = contrast_mode'],
                   original_image, zoom, analysis_overlays)
  /\ last' = Event("keyPressC", None, 0, NoAnswer)
  /\ UNCHANGED <<now, exported, original_image, zoom, analysis_mode_active,
                 tool_combo, current_analysis_tool, analysis_overlays,
                 drawing_overlay, drawing_start_point, enhanced_mode,
                 trace_enhancement_active, exported_view, liveVars>>
  /\ UNCHANGED <<captureVars, panVars, annotationVars>>

\* apply_enhanced_mode, on a change of the enhanced-mode checkbox
apply_enhanced_mode ==
  /\ phase = "running"
  /\ enhanced_mode' = ~enhanced_mode
  /\ IF live_capture_active
     THEN /\ settings' = [settings EXCEPT !.enhanced_mode = enhanced_mode']
          /\ raised' = "none"
          /\ phase' = "running"
     ELSE Rendered([settings EXCEPT !.enhanced_mode = enhanced_mode'],
                   original_image, zoom, analysis_overlays)
  /\ last' = Event("apply_enhanced_mode", None, 0, NoAnswer)
  /\ UNCHANGED <<now, exported, original_image, zoom, analysis_mode_active,
                 tool_combo, current_analysis_tool, analysis_overlays,
                 drawing_overlay, drawing_start_point, contrast_mode,
                 trace_enhancement_active, exported_view, liveVars>>
  /\ UNCHANGED <<captureVars, panVars, annotationVars>>

\* toggle_trace_enhancement, from the button or the T key
toggle_trace_enhancement ==
  /\ phase = "running"
  /\ trace_enhancement_active' = ~trace_enhancement_active
  /\ IF live_capture_active
     THEN Returned
     ELSE Rendered(settings, original_image, zoom, analysis_overlays)
  /\ last' = Event("toggle_trace_enhancement", None, 0, NoAnswer)
  /\ UNCHANGED <<now, exported, original_image, zoom, analysis_mode_active,
                 tool_combo, current_analysis_tool, analysis_overlays,
                 drawing_overlay, drawing_start_point, contrast_mode,
                 enhanced_mode, exported_view, liveVars>>
  /\ UNCHANGED <<captureVars, panVars, annotationVars>>

\* export_current_view; chosen tells whether a file name was chosen.
\* cv2.resize rejects an empty target size
export_current_view(chosen) ==
  /\ phase = "running"
  /\ IF original_image # None /\ chosen
     THEN IF ScaledSize(original_image, zoom).width = 0
             \/ ScaledSize(original_image, zoom).height = 0
          THEN /\ raised' = "cv2.error"
               /\ phase' = "crashed"
               /\ UNCHANGED <<settings, exported_view>>
          ELSE /\ exported_view' =
                    [written |-> TRUE,
                     steps |-> export_current_view_steps(contrast_mode,
                                                         enhanced_mode, zoom)]
               /\ Returned
     ELSE /\ Returned
          /\ UNCHANGED exported_view
  /\ last' = Event("export_current_view", None, 0,
                   [ok |-> original_image # None /\ chosen, text |-> ""])
  /\ UNCHANGED <<now, exported, original_image, zoom, analysis_mode_active,
                 tool_combo, current_analysis_tool, analysis_overlays,
                 drawing_overlay, drawing_start_point, contrast_mode,
                 enhanced_mode, trace_enhancement_active, liveVars>>
  /\ UNCHANGED <<captureVars, panVars, annotationVars>>

InitExport == InitFrom({Saved(<<>>)})

NextExport ==
  \/ keyPressC
  \/ apply_enhanced_mode
  \/ toggle_trace_enhancement
  \/ \E value \in ZoomChoices : SetZoom(value)
  \/ \E chosen \in BOOLEAN : export_current_view(chosen)

SpecExport == InitExport /\ [][NextExport]_vars

\* C12: the raster export_current_view writes is the source image after
\* exactly the transform steps, in the order, that update_zoom applies for
\* the preview under the same contrast mode, enhanced-mode flag,
\* trace-enhancement flag and zoom.
C12_ExportEqualsPreview ==
  (last.op = "export_current_view" /\ last.ans.ok /\ raised = "none")
    => exported_view.steps =
         update_zoom_steps(contrast_mode, enhanced_mode,
                           trace_enhancement_active, zoom)

----------------------------------------------------------------------------
(* The gesture specification: the drawing session on a restored store,     *)
(* with close and export of the overlays.                                  *)

\* a session saved in analysis mode with the given tool armed
GestureSettings ==
  { [Saved(records) EXCEPT !.analysis_mode_active = TRUE,
                           !.current_analysis_tool = tool] :
      records \in {<<>>, <<NoteRecord>>}, tool \in Tools }

\* label-relative event positions: the image origin, an inner point and a
\* point beyond the 2 x 2 image at 100 percent
GesturePoints == {QPoint(0, 0), QPoint(1, 1), QPoint(2, 1)}

InitGesture == InitFrom(GestureSettings)

NextGesture ==
  \/ \E pos \in GesturePoints, ans \in PressAnswers : mousePressLeft(pos, ans)
  \/ \E pos \in GesturePoints : mouseMoveEvent(pos)
  \/ \E pos \in GesturePoints, ans \in TextAnswers : mouseReleaseLeft(pos, ans)
  \/ mousePressRight
  \/ toggle_analysis_mode
  \/ closeEvent
  \/ \E chosen \in BOOLEAN : export_overlays(chosen)

SpecGesture == InitGesture /\ [][NextGesture]_vars

\* the fixed end point of a draft: Ruler start_point, ROI top_left
FixedEnd(overlay) ==
  IF overlay.type = "Ruler" THEN overlay.start_point ELSE overlay.top_left

\* the free end point of a draft: Ruler end_point, ROI bottom_right
FreeEnd(overlay) ==
  IF overlay.type = "Ruler" THEN overlay.end_point ELSE overlay.bottom_right

\* C13: the draft stays outside the store.  A step that starts or changes a
\* draft leaves the store as it was; while a draft exists the store grows
\* only by a release that appends that draft and at once ends the drawing;
\* a close or an export made while a draft exists writes the records of the
\* store's overlays only and leaves the draft in place.
C13_DraftOutsideStore ==
  [][/\ (drawing_overlay' # None /\ drawing_overlay' # drawing_overlay)
          => analysis_overlays' = analysis_overlays
     /\ (drawing_overlay # None /\ Len(analysis_overlays') > Len(analysis_overlays))
          => /\ last'.op = "mouseRelease"
             /\ drawing_overlay' = None
             /\ drawing_start_point' = None
             /\ Len(analysis_overlays') = Len(analysis_overlays) + 1
             /\ SubSeq(analysis_overlays', 1, Len(analysis_overlays)) = analysis_overlays
             /\ LET new == analysis_overlays'[Len(analysis_overlays')]
                IN /\ new.id = drawing_overlay.id
                   /\ new.type = drawing_overlay.type
                   /\ FixedEnd(new) = FixedEnd(drawing_overlay)
     /\ (drawing_overlay # None /\ last'.op = "closeEvent" /\ raised' = "none")
          => /\ settings'.analysis_overlays = Serialize(analysis_overlays)
             /\ drawing_overlay' = drawing_overlay
     /\ (drawing_overlay # None /\ last'.op = "export_overlays" /\ last'.ans.ok)
          => /\ exported'.records = Serialize(analysis_overlays)
             /\ drawing_overlay' = drawing_overlay
    ]_vars

\* the program was closed in the middle of a gesture, the store saved
C13_ClosedWhileDrawing ==
  /\ phase = "closed"
  /\ last.op = "closeEvent"
  /\ drawing_overlay # None
  /\ Len(settings.analysis_overlays) = Len(analysis_overlays)

\* C16: while a draft exists, a move at an in-bounds point p sets the free
\* end point of the draft to p and nothing else of it, keeps the fixed end
\* point at the press point, keeps the draft, and leaves the store as it was.
C16_MoveSetsFreeEnd ==
  [][\A pos \in GesturePoints :
       ( /\ analysis_mode_active
         /\ drawing_overlay # None
         /\ get_image_coordinates(pos) # None
         /\ mouseMoveEvent(pos) )
       => /\ drawing_overlay' = WithFreeEnd(drawing_overlay, get_image_coordinates(pos))
          /\ FixedEnd(drawing_overlay') = drawing_start_point
          /\ drawing_start_point' = drawing_start_point
          /\ analysis_overlays' = analysis_overlays
    ]_vars

\* C17: with the Note tool armed, a press at an in-bounds point p answered
\* with a non-empty text t appends one Note with position p and text t to
\* the store; a cancelled or empty answer leaves the store as it was; either
\* way the Note tool stays armed and there is no draft.
C17_NotePressCommits ==
  [][\A pos \in GesturePoints, ans \in TextAnswers :
       ( /\ analysis_mode_active
         /\ current_analysis_tool = "Note"
         /\ get_image_coordinates(pos) # None
         /\ mousePressLeft(pos, ans) )
       => /\ (ans.ok /\ ans.text # "")
               => /\ Len(analysis_overlays') = Len(analysis_overlays) + 1
                  /\ SubSeq(analysis_overlays', 1, Len(analysis_overlays))
                       = analysis_overlays
                  /\ LET new == analysis_overlays'[Len(analysis_overlays')]
                     IN /\ new.type = "Note"
                        /\ new.position = get_image_coordinates(pos)
                        /\ new.text = ans.text
          /\ ~(ans.ok /\ ans.text # "")
               => analysis_overlays' = analysis_overlays
          /\ analysis_mode_active'
          /\ current_analysis_tool' = "Note"
          /\ drawing_overlay' = None
          /\ drawing_start_point' = None
    ]_vars

\* a press has committed the Note "baseline" at the end of the store
C17_NoteCommitted ==
  /\ last.op = "mousePress"
  /\ last.index = 1
  /\ current_analysis_tool = "Note"
  /\ drawing_overlay = None
  /\ analysis_overlays[Len(analysis_overlays)].type = "Note"
  /\ analysis_overlays[Len(analysis_overlays)].text = "baseline"

\* C18: a right-button press while a draft exists discards the draft and
\* its start point, keeps the tool and the analysis mode and leaves the
\* store as it was; a release without a draft commits nothing.
C18_RightButtonDiscards ==
  [][/\ ( /\ analysis_mode_active /\ drawing_overlay # None
          /\ last'.op = "mousePressRight" )
          => /\ drawing_overlay' = None
             /\ drawing_start_point' = None
             /\ analysis_overlays' = analysis_overlays
             /\ current_analysis_tool' = current_analysis_tool
             /\ analysis_mode_active'
     /\ (drawing_overlay = None /\ last'.op = "mouseRelease")
          => /\ analysis_overlays' = analysis_overlays
             /\ drawing_overlay' = None
    ]_vars

\* a right-button press has cancelled a drawing
C18_DrawingCancelled ==
  /\ last.op = "mousePressRight"
  /\ last.index = 1
  /\ analysis_mode_active
  /\ drawing_overlay = None
  /\ drawing_start_point = None

\* C19: the armed tool does not change while a draft exists.  A draft has
\* the kind of current_analysis_tool, current_analysis_tool changes only in
\* steps that begin and end without a draft, and an overlay that enters the
\* store has the kind of the tool armed.
C19_ToolFixedWhileDrawing ==
  [][/\ drawing_overlay' # None
          => drawing_overlay'.type = current_analysis_tool'
     /\ current_analysis_tool' # current_analysis_tool
          => (drawing_overlay = None /\ drawing_overlay' = None)
     /\ Len(analysis_overlays') > Len(analysis_overlays)
          => analysis_overlays'[Len(analysis_overlays')].type = current_analysis_tool
    ]_vars

\* during a drawing the combo box shows another tool than the one armed
C19_ComboChangedWhileDrawing ==
  /\ drawing_overlay # None
  /\ drawing_overlay.type = current_analysis_tool
  /\ tool_combo # current_analysis_tool

----------------------------------------------------------------------------
(* The order specification: commits of the three kinds, edits, deletes and *)
(* serialisation on a restored store.                                      *)

OrderSettings ==
  { [Saved(records) EXCEPT !.analysis_mode_active = TRUE,
                           !.current_analysis_tool = tool] :
      records \in {<<NoteRecord>>, <<NoteRecord, RulerRecord, ROIRecord>>},
      tool \in Tools }

\* indices of the store operations
OrderIndices == {0, 1, 2}

\* the answers given to the note dialogs of releases and edits
OrderAnswers == {[ok |-> FALSE, text |-> ""], [ok |-> TRUE, text |-> "baseline"]}

InitOrder == InitFrom(OrderSettings)

NextOrder ==
  \/ \E pos \in StorePoints, ans \in PressAnswers : mousePressLeft(pos, ans)
  \/ \E pos \in StorePoints, ans \in OrderAnswers : mouseReleaseLeft(pos, ans)
  \/ \E index \in OrderIndices : delete_overlay(index)
  \/ \E index \in OrderIndices, ans \in OrderAnswers : edit_overlay(index, ans)
  \/ closeEvent
  \/ \E chosen \in BOOLEAN : export_overlays(chosen)

SpecOrder == InitOrder /\ [][NextOrder]_vars

----------------------------------------------------------------------------
(* The tool specification: tool selection interleaved with the gestures of *)
(* the three tools and toggles of the analysis mode, on one event position *)
(* inside the image.                                                       *)

ToolSettings == {[Saved(<<>>) EXCEPT !.analysis_mode_active = TRUE]}

InitTool == InitFrom(ToolSettings)

NextTool ==
  \/ \E tool \in Tools : SelectTool(tool)
  \/ toggle_analysis_mode
  \/ \E pos \in StorePoints, ans \in PressAnswers : mousePressLeft(pos, ans)
  \/ \E pos \in StorePoints : mouseMoveEvent(pos)
  \/ \E pos \in StorePoints, ans \in OrderAnswers : mouseReleaseLeft(pos, ans)
  \/ mousePressRight

SpecTool == InitTool /\ [][NextTool]_vars

\* C20: the store keeps the order of commitment.  A commit appends at the
\* end; a delete at a valid index removes that element only and keeps the
\* others in their order; an edit changes no other element and moves none;
\* close and export write one record per overlay in the order of the store.
C20_StoreKeepsOrder ==
  [][/\ (last'.op \in {"mousePress", "mouseRelease"} /\ last'.index = 1)
          => /\ Len(analysis_overlays') = Len(analysis_overlays) + 1
             /\ SubSeq(analysis_overlays', 1, Len(analysis_overlays))
                  = analysis_overlays
     /\ (last'.op = "delete_overlay" /\ ~InvalidIndex(last'.index))
          => /\ Len(analysis_overlays') = Len(analysis_overlays) - 1
             /\ \A k \in 1..Len(analysis_overlays') :
                  analysis_overlays'[k] =
                    IF k <= last'.index
                    THEN analysis_overlays[k]
                    ELSE analysis_overlays[k + 1]
     /\ (last'.op = "edit_overlay" /\ ~InvalidIndex(last'.index))
          => /\ Len(analysis_overlays') = Len(analysis_overlays)
             /\ \A k \in 1..Len(analysis_overlays) :
                  /\ analysis_overlays'[k].id = analysis_overlays[k].id
                  /\ analysis_overlays'[k].type = analysis_overlays[k].type
                  /\ k # last'.index + 1
                       => analysis_overlays'[k] = analysis_overlays[k]
     /\ (last'.op = "closeEvent" /\ raised' = "none")
          => /\ Len(settings'.analysis_overlays) = Len(analysis_overlays)
             /\ \A k \in 1..Len(analysis_overlays) :
                  settings'.analysis_overlays[k] = to_dict(analysis_overlays[k])
     /\ (last'.op = "export_overlays" /\ last'.ans.ok)
          => /\ Len(exported'.records) = Len(analysis_overlays)
             /\ \A k \in 1..Len(analysis_overlays) :
                  exported'.records[k] = to_dict(analysis_overlays[k])
    ]_vars

\* the first of three overlays was deleted: the Ruler and the ROI follow in
\* their order
C20_FirstDeleted ==
  /\ last.op = "delete_overlay"
  /\ last.index = 0
  /\ Len(analysis_overlays) = 2
  /\ analysis_overlays[1].type = "Ruler"
  /\ analysis_overlays[2].type = "ROI"

----------------------------------------------------------------------------
(* Screen capture.  All handlers run on the GUI thread.  A handler runs to *)
(* its end before the next event is dispatched, except where it enters a   *)
(* nested event loop: _do_capture(live=False) calls                        *)
(* QApplication.processEvents(), which dispatches the pending events, the  *)
(* timeouts of the capture timer among them, before _do_capture goes on.   *)
(* handlers is the stack of the handlers suspended in processEvents.       *)

\* nested manual captures the model follows
MaxDepth == 2

\* singleShot grabs pending at one time
MaxShots == 2

\* what _grab_and_load obtains: the shape of the screen grabbed, or None
\* when the grab raises
CaptureResults == {None, Image(3, 2)}

\* _grab_and_load with the outcome img of the grab.  The update_zoom at its
\* end runs inside the try block: what it raises is printed, not propagated
grab_and_load(img) ==
  /\ IF img = None
     THEN UNCHANGED <<original_image, settings>>
     ELSE /\ original_image' = img
          /\ settings' = update_zoom_settings(settings, img, zoom)
  /\ raised' = "none"
  /\ phase' = "running"

\* the exception the try block of _grab_and_load catches and prints when the
\* grab yields img: the grab's own, or the one update_zoom ends with once
\* original_image was assigned; "none" when the capture succeeds
CaptureError(img) ==
  IF img = None THEN "Exception"
  ELSE update_zoom_raises(img, zoom, analysis_overlays)

\* the interval of the capture timer at a frame rate: int(1000 / selected_fps)
IntervalMs(selected_fps) == 1000 \div selected_fps

\* the live-capture checkbox is checked: stateChanged runs
\* toggle_live_capture and that start_live_capture, whose setChecked(True)
\* changes nothing; the capture timer is replaced by a new one, started at
\* the interval of the frame rate selected
start_live_capture ==
  /\ phase = "running"
  /\ ~live_capture_checkbox
  /\ live_capture_checkbox' = TRUE
  /\ live_capture_active' = TRUE
  /\ contrast_mode' = 0
  /\ capture_timer' = [active |-> TRUE, interval |-> IntervalMs(fps_combo)]
  /\ timeout_pending' = FALSE
  /\ Returned
  /\ last' = Event("start_live_capture", None, Len(handlers), NoAnswer)
  /\ UNCHANGED <<now, exported, original_image, zoom, analysis_mode_active,
                 tool_combo, current_analysis_tool, analysis_overlays,
                 drawing_overlay, drawing_start_point, enhanced_mode,
                 trace_enhancement_active, exported_view, handlers, single_shots>>
  /\ UNCHANGED <<fps_combo, panVars, annotationVars>>

\* variant: the stop leaves the timer running
stop_live_capture_keeps_timer(dropped) ==
  /\ phase = "running"
  /\ live_capture_checkbox \/ live_capture_active
  /\ live_capture_active' = FALSE
  /\ live_capture_checkbox' = FALSE
  /\ timeout_pending' = (timeout_pending /\ ~dropped)
  /\ Returned
  /\ last' = Event("stop_live_capture", None, Len(handlers), NoAnswer)
  /\ UNCHANGED <<now, exported, original_image, zoom, analysis_mode_active,
                 tool_combo, current_analysis_tool, analysis_overlays,
                 drawing_overlay, drawing_start_point, filterVars, handlers,
                 single_shots, capture_timer>>
  /\ UNCHANGED <<fps_combo, panVars, annotationVars>>

\* stop_live_capture, from the checkbox being unchecked (through
\* toggle_live_capture) or from the capture button, which
\* start_live_capture connected to it.  From the button, setChecked(False)
\* runs toggle_live_capture and stop_live_capture once more inside this
\* call, which stops and drops the timer; the outer call then finds no
\* timer.  dropped tells whether a timeout that was already pending is
\* discarded with the timer or is still dispatched
stop_live_capture(dropped) ==
  /\ phase = "running"
  /\ live_capture_checkbox \/ live_capture_active
  /\ live_capture_active' = FALSE
  /\ live_capture_checkbox' = FALSE
  /\ capture_timer' = None
  /\ timeout_pending' = (timeout_pending /\ ~dropped)
  /\ Returned
  /\ last' = Event("stop_live_capture", None, Len(handlers), NoAnswer)
  /\ UNCHANGED <<now, exported, original_image, zoom, analysis_mode_active,
                 tool_combo, current_analysis_tool, analysis_overlays,
                 drawing_overlay, drawing_start_point, filterVars, handlers,
                 single_shots>>
  /\ UNCHANGED <<fps_combo, panVars, annotationVars>>

\* update_fps, on the selection of another frame rate in the FPS combo box:
\* the interval of the timer follows while live capture is active
update_fps(selected_fps) ==
  /\ phase = "running"
  /\ selected_fps # fps_combo
  /\ fps_combo' = selected_fps
  /\ capture_timer' = IF live_capture_active /\ capture_timer # None
                      THEN [capture_timer EXCEPT !.interval = IntervalMs(selected_fps)]
                      ELSE capture_timer
  /\ Returned
  /\ last' = Event("update_fps", None, Len(handlers), NoAnswer)
  /\ UNCHANGED <<now, exported, original_image, zoom, analysis_mode_active,
                 tool_combo, current_analysis_tool, analysis_overlays,
                 drawing_overlay, drawing_start_point, filterVars,
                 live_capture_active, timeout_pending, handlers, single_shots,
                 live_capture_checkbox, panVars, annotationVars>>

\* the interval of the running capture timer elapses
TimerExpires ==
  /\ phase = "running"
  /\ capture_timer # None
  /\ ~timeout_pending
  /\ timeout_pending' = TRUE
  /\ last' = Event("TimerExpires", None, Len(handlers), NoAnswer)
  /\ UNCHANGED <<phase, raised, now, settings, exported, original_image, zoom,
                 analysis_mode_active, tool_combo, current_analysis_tool,
                 analysis_overlays, drawing_overlay, drawing_start_point,
                 filterVars, live_capture_active, capture_timer, handlers,
                 single_shots>>
  /\ UNCHANGED <<captureVars, panVars, annotationVars>>

\* variant: the tick captures whether live capture is active or not
live_capture_update_unguarded(img) ==
  /\ phase = "running"
  /\ timeout_pending
  /\ timeout_pending' = FALSE
  /\ grab_and_load(img)
  /\ last' = Event("live_capture_update", img, Len(handlers),
                   [ok |-> TRUE, text |-> CaptureError(img)])
  /\ UNCHANGED <<now, exported, zoom, analysis_mode_active, tool_combo,
                 current_analysis_tool, analysis_overlays, drawing_overlay,
                 drawing_start_point, filterVars, live_capture_active,
                 capture_timer, handlers, single_shots>>
  /\ UNCHANGED <<captureVars, panVars, annotationVars>>

\* live_capture_update, on the dispatch of a timeout of the capture timer,
\* by the main event loop or by the processEvents of a manual capture; img
\* is the outcome of the grab.  The event records the depth of the handler
\* stack at the dispatch, whether the tick went on to capture and the
\* exception the capture printed
live_capture_update(img) ==
  /\ phase = "running"
  /\ timeout_pending
  /\ timeout_pending' = FALSE
  /\ IF live_capture_active
     THEN /\ grab_and_load(img)
          /\ last' = Event("live_capture_update", img, Len(handlers),
                           [ok |-> TRUE, text |-> CaptureError(img)])
     ELSE /\ Returned
          /\ UNCHANGED original_image
          /\ last' = Event("live_capture_update", None, Len(handlers), NoAnswer)
  /\ UNCHANGED <<now, exported, zoom, analysis_mode_active, tool_combo,
                 current_analysis_tool, analysis_overlays, drawing_overlay,
                 drawing_start_point, filterVars, live_capture_active,
                 capture_timer, handlers, single_shots>>
  /\ UNCHANGED <<captureVars, panVars, annotationVars>>

\* capture_screen, from the space key (or the capture button while live
\* capture is off), up to its processEvents call
capture_screen_begin ==
  /\ phase = "running"
  /\ Len(handlers) < MaxDepth
  /\ handlers' = Append(handlers, "capture_screen")
  /\ Returned
  /\ last' = Event("capture_screen", None, Len(handlers), NoAnswer)
  /\ UNCHANGED <<now, exported, original_image, zoom, analysis_mode_active,
                 tool_combo, current_analysis_tool, analysis_overlays,
                 drawing_overlay, drawing_start_point, filterVars,
                 live_capture_active, capture_timer, timeout_pending,
                 single_shots>>
  /\ UNCHANGED <<captureVars, panVars, annotationVars>>

\* processEvents returns to the innermost manual capture, which schedules
\* its grab with QTimer.singleShot and ends
capture_screen_end ==
  /\ phase = "running"
  /\ handlers # <<>>
  /\ single_shots < MaxShots
  /\ handlers' = SubSeq(handlers, 1, Len(handlers) - 1)
  /\ single_shots' = single_shots + 1
  /\ Returned
  /\ last' = Event("singleShot", None, Len(handlers'), NoAnswer)
  /\ UNCHANGED <<now, exported, original_image, zoom, analysis_mode_active,
                 tool_combo, current_analysis_tool, analysis_overlays,
                 drawing_overlay, drawing_start_point, filterVars,
                 live_capture_active, capture_timer, timeout_pending>>
  /\ UNCHANGED <<captureVars, panVars, annotationVars>>

\* a scheduled grab of a manual capture runs; img is its outcome
single_shot_grab(img) ==
  /\ phase = "running"
  /\ single_shots > 0
  /\ single_shots' = single_shots - 1
  /\ grab_and_load(img)
  /\ last' = Event("_grab_and_load", img, Len(handlers),
                   [ok |-> TRUE, text |-> CaptureError(img)])
  /\ UNCHANGED <<now, exported, zoom, analysis_mode_active, tool_combo,
                 current_analysis_tool, analysis_overlays, drawing_overlay,
                 drawing_start_point, filterVars, live_capture_active,
                 capture_timer, timeout_pending, handlers>>
  /\ UNCHANGED <<captureVars, panVars, annotationVars>>

\* the stores live capture starts on; restore_session loads the record of an
\* unknown kind as a None entry of the store
LiveSettings == {Saved(<<NoteRecord>>), Saved(<<NoteRecord, UnknownRecord>>)}

InitLive == InitFrom(LiveSettings)

\* frame rates of the FPS combo box
FpsChoices == {ScreenRefreshRate, 30}

NextLive ==
  \/ start_live_capture
  \/ \E selected_fps \in FpsChoices : update_fps(selected_fps)
  \/ \E dropped \in BOOLEAN : stop_live_capture(dropped)
  \/ TimerExpires
  \/ \E img \in CaptureResults : live_capture_update(img)
  \/ capture_screen_begin
  \/ capture_screen_end
  \/ \E img \in CaptureResults : single_shot_grab(img)

SpecLive == InitLive /\ [][NextLive]_vars

\* C14: a tick of live capture never runs while another tick or a capture
\* is in progress: a live_capture_update that goes on to capture is
\* dispatched only when no handler is suspended, the processEvents of a
\* manual capture included.
C14_TicksNeverNested ==
  [][(last'.op = "live_capture_update" /\ last'.ans.ok) => handlers = <<>>]_vars

\* C15: once stop_live_capture has run, and until start_live_capture runs
\* again, a tick captures nothing and leaves the source image as it was,
\* also the tick of a timeout that was pending at the stop; the stop leaves
\* live capture off and without a timer.
C15_NoCaptureAfterStop ==
  [][/\ (last'.op = "live_capture_update" /\ ~live_capture_active)
          => /\ ~last'.ans.ok
             /\ original_image' = original_image
             /\ settings' = settings
     /\ last'.op = "stop_live_capture"
          => (~live_capture_active' /\ capture_timer' = None)
    ]_vars

\* a timeout that was pending at the stop was dispatched after it
C15_StaleTickIgnored ==
  /\ last.op = "live_capture_update"
  /\ ~last.ans.ok
  /\ ~live_capture_active
  /\ capture_timer = None

\* C21: a capture that fails, in the grab or in the render that follows it,
\* leaves the store, the draft and the source image as they were, and no
\* capture, failed or not, changes the store.
C21_FailedCaptureKeepsState ==
  [][(last'.op \in {"live_capture_update", "_grab_and_load"} /\ last'.ans.ok)
       => /\ analysis_overlays' = analysis_overlays
          /\ last'.ans.text # "none"
               => /\ original_image' = original_image
                  /\ drawing_overlay' = drawing_overlay
                  /\ drawing_start_point' = drawing_start_point
    ]_vars

----------------------------------------------------------------------------
(* The filter specification: the contrast mode, the enhanced-mode flag and *)
(* trace enhancement, as restored from the settings store and as changed   *)
(* by the keys, the checkbox and live capture.                             *)

\* the contrast modes found in the settings store: written by the C key
\* (0..7), or any other integer QSettings returns for the key
SavedContrastModes == {0, 7, 8, -1, -9}

FilterSettings ==
  { [Saved(<<>>) EXCEPT !.contrast_mode = mode, !.enhanced_mode = enhanced] :
      mode \in SavedContrastModes, enhanced \in BOOLEAN }

InitFilter == InitFrom(FilterSettings)

NextFilter ==
  \/ keyPressC
  \/ apply_enhanced_mode
  \/ toggle_trace_enhancement
  \/ start_live_capture
  \/ \E dropped \in BOOLEAN : stop_live_capture(dropped)
  \/ closeEvent
  \/ Launch

SpecFilter == InitFilter /\ [][NextFilter]_vars

\* the transform steps of the preview update_zoom renders in this state
Preview ==
  update_zoom_steps(contrast_mode, enhanced_mode, trace_enhancement_active, zoom)

\* the handler that ran last rendered the preview
PreviewRendered ==
  /\ phase = "running"
  /\ original_image # None
  /\ \/ last.op = "__init__"
     \/ /\ last.op \in {"keyPressC", "apply_enhanced_mode", "toggle_trace_enhancement"}
        /\ ~live_capture_active

HasStep(steps, op) == \E i \in 1..Len(steps) : steps[i].op = op

\* C22: in every rendered preview the filter is applied exactly when the
\* enhanced-mode flag is set and contrast_mode is not 0, and when both the
\* filter and trace enhancement are applied the filter comes first.
C22_FilterThenTrace ==
  PreviewRendered
    => /\ HasStep(Preview, "filter") <=> (enhanced_mode /\ contrast_mode # 0)
       /\ HasStep(Preview, "trace") <=> trace_enhancement_active
       /\ \A i, j \in 1..Len(Preview) :
            (Preview[i].op = "filter" /\ Preview[j].op = "trace") => i < j

\* C28: while the viewer runs, contrast_mode is always one of the eight
\* filter modes 0..7.
C28_ContrastModeInRange ==
  phase = "running" => contrast_mode \in 0..(ContrastModes - 1)

----------------------------------------------------------------------------
(* Edits of committed overlays.                                            *)

\* C23: edit_overlay at a valid index keeps the length of the store and
\* every other overlay, and changes of the overlay at the index only the
\* text of a Note, or the note entry of the data of a Ruler or ROI; a
\* cancelled edit changes nothing.
C23_EditRewritesTouchedField ==
  [][(/\ last'.op = "edit_overlay"
      /\ 0 <= last'.index
      /\ last'.index < Len(analysis_overlays))
       => LET i == last'.index + 1
              before == analysis_overlays[i]
          IN /\ Len(analysis_overlays') = Len(analysis_overlays)
             /\ \A j \in 1..Len(analysis_overlays) :
                  j # i => analysis_overlays'[j] = analysis_overlays[j]
             /\ LET after == analysis_overlays'[i]
                IN IF before.type = "Note"
                   THEN [after EXCEPT !.text = before.text] = before
                   ELSE /\ [after EXCEPT !.data = before.data] = before
                        /\ Pop(after.data, "note") = Pop(before.data, "note")
             /\ ~last'.ans.ok
                  => /\ analysis_overlays' = analysis_overlays
                     /\ settings' = settings
                     /\ exported' = exported
                     /\ original_image' = original_image
                     /\ drawing_overlay' = drawing_overlay
    ]_vars

\* an accepted edit gave the ROI at index 2 of a store of three a note
C23_ROINoteEdited ==
  /\ last.op = "edit_overlay"
  /\ last.index = 2
  /\ last.ans.ok
  /\ Len(analysis_overlays) = 3
  /\ analysis_overlays[3].type = "ROI"
  /\ Get(analysis_overlays[3].data, "note", "") = "baseline"
  /\ analysis_overlays[3].color = ROIColor

----------------------------------------------------------------------------
(* Panning.                                                                *)

\* C29: panning is true only between a press and the release of the left
\* button: once the left button has been released panning is false,
\* whatever toggles of the analysis mode came in between.
C29_ReleaseEndsPanning ==
  [][last'.op = "mouseRelease" => ~panning']_vars

----------------------------------------------------------------------------
(* The annotation specification: the legacy annotations, as restored from  *)
(* the settings store, cleared with the Delete key and saved at the close. *)

\* keyPressEvent, key Delete: the annotations are cleared
keyPressDelete ==
  /\ phase = "running"
  /\ professional_annotations' = <<>>
  /\ Rendered(settings, original_image, zoom, analysis_overlays)
  /\ last' = Event("keyPressDelete", None, Len(professional_annotations), NoAnswer)
  /\ UNCHANGED <<now, exported, original_image, zoom, analysis_mode_active,
                 tool_combo, current_analysis_tool, analysis_overlays,
                 drawing_overlay, drawing_start_point, filterVars, liveVars,
                 captureVars, panVars>>

\* saved annotation records of an earlier session: an event marker away
\* from the origin, a measurement at the origin, a marker with no position
SeizureRecord ==
  [type |-> "Seizure", id |-> -3, data |-> [color |-> "#FF0000"],
   position |-> [x |-> 2, y |-> 1]]

AmplitudeRecord ==
  [type |-> "Amplitude", id |-> -2, data |-> [value |-> 50, unit |-> "uV"],
   position |-> [x |-> 0, y |-> 0]]

ArtifactRecord == [type |-> "Artifact", id |-> -1, data |-> EmptyDict]

AnnotationSettings ==
  { [Saved(<<NoteRecord>>) EXCEPT !.saved_annotations = records,
                                 !.last_zoom = scale_percent] :
      records \in { <<>>, <<SeizureRecord>>, <<SeizureRecord, ArtifactRecord>>,
                    <<ArtifactRecord, SeizureRecord>>,
                    <<SeizureRecord, AmplitudeRecord, ArtifactRecord>> },
      scale_percent \in ZoomChoices }

InitAnnotation == InitFrom(AnnotationSettings)

NextAnnotation ==
  \/ closeEvent
  \/ Launch
  \/ keyPressDelete
  \/ toggle_analysis_mode
  \/ \E value \in ZoomChoices : SetZoom(value)

SpecAnnotation == InitAnnotation /\ [][NextAnnotation]_vars

\* C24: the annotations a launch restores after a close are those the
\* viewer held at the close: same order, type, id, data and position.
C24_AnnotationRoundTrip ==
  [][(phase = "closed" /\ last'.op = "__init__" /\ phase' = "running")
       => professional_annotations' = professional_annotations]_vars

----------------------------------------------------------------------------
(* Serialisation and the overlays it reads.                                *)

\* C25: serialising is read-only: export_overlays and closeEvent leave
\* every overlay of the store as it was, the keys and values of its data
\* included.
C25_SerializingReadsOnly ==
  [][last'.op \in {"export_overlays", "closeEvent"}
       => analysis_overlays' = analysis_overlays]_vars

----------------------------------------------------------------------------
(* The device positions get_image_coordinates accepts.                     *)

\* the device position lies inside the bitmap update_zoom rendered
InsideBitmap(d) ==
  /\ 0 <= d.x /\ d.x < ScaledSize(original_image, zoom).width
  /\ 0 <= d.y /\ d.y < ScaledSize(original_image, zoom).height

\* C26: at every zoom in 10..400 get_image_coordinates returns a point only
\* for device positions inside the rendered bitmap; a position with a
\* negative coordinate or at or beyond the bitmap's edge yields None.
C26_PointOnlyInsideBitmap ==
  last.op = "ProbeDevice" => (last.pos.back # None => InsideBitmap(last.pos.d))

----------------------------------------------------------------------------
(* The scale specification: small source images over the range of the zoom *)
(* slider, rendered by update_zoom and written by export_current_view.     *)

\* shapes of the image files opened: one pixel wide, just under and at the
\* size that keeps a pixel at the smallest zoom
ScaleImageFiles == {Image(1, 2), Image(9, 9), Image(10, 10)}

\* values of the zoom slider: its minimum, its maximum and two between
ScaleChoices == {ZoomMin, 50, 100, ZoomMax}

ScaleSettings ==
  { [Saved(<<>>) EXCEPT !.last_file = file, !.last_zoom = scale_percent] :
      file \in {Image(10, 10), Image(1, 2)}, scale_percent \in {100, ZoomMax} }

InitScale == InitFrom(ScaleSettings)

NextScale ==
  \/ \E value \in ScaleChoices : SetZoom(value)
  \/ \E file \in ScaleImageFiles \cup {None} : open_file(file)
  \/ \E chosen \in BOOLEAN : export_current_view(chosen)
  \/ toggle_trace_enhancement
  \/ Launch

SpecScale == InitScale /\ [][NextScale]_vars

\* C27: for every source image of at least 1x1 and every zoom in 10..400
\* the target size update_zoom and export_current_view compute has both
\* dimensions at least 1.
C27_ScaledSizePositive ==
  (original_image # None /\ original_image.width >= 1 /\ original_image.height >= 1)
    => /\ ScaledSize(original_image, zoom).width >= 1
       /\ ScaledSize(original_image, zoom).height >= 1

----------------------------------------------------------------------------
(* Live capture and its timer.                                             *)

\* C30: live_capture_active holds exactly when a capture timer exists and
\* runs; the viewer holds one timer at most, at the interval of the frame
\* rate selected.
C30_ActiveIffTimerRuns ==
  phase = "running"
    => /\ live_capture_active <=> capture_timer # None
       /\ capture_timer # None
            => /\ capture_timer.active
               /\ capture_timer.interval = IntervalMs(fps_combo)

\* the frame rate was changed while live capture was running
C30_FpsChangedWhileLive ==
  /\ last.op = "update_fps"
  /\ live_capture_active
  /\ capture_timer # None
  /\ capture_timer.interval = IntervalMs(30)

====
